---- MODULE Spec2Model ----
(***************************************************************************)
(* Model of the ia-investing news/sentiment service: the rate-limit        *)
(* cooldown tracker (rate_limit_manager.py), the job tracker               *)
(* (services/job_tracker.py), the tracked job wrappers                     *)
(* (schedulers/scheduler.py, api/routers/jobs.py), the fetch and analyze   *)
(* jobs (schedulers/news_fetcher.py, schedulers/analyzer.py) and the       *)
(* provider calls they make (news_retriever.py, ia_analisis.py).           *)
(*                                                                         *)
(* Threads are the worker threads of the scheduler and of the request      *)
(* layer's background tasks.  One step of the model is one operation on a  *)
(* shared object (a tracker method, a database session, a provider         *)
(* request); the steps of different threads interleave freely.             *)
(***************************************************************************)
EXTENDS Integers, Sequences, FiniteSets, TLC

\* ------------------------------------------------------------ bounds
MaxTicks == 1      \* the clock advances at most this many times
MaxRuns == 2       \* entry points started in one behaviour

\* ------------------------------------------------- program constants
CooldownSeconds == 60     \* RateLimitStatus(cooldown_seconds=60)
MaxAttempts == 3          \* tenacity stop_after_attempt(3)

None == -1                \* Python None where a number / datetime is expected
NoneStr == "None"         \* Python None where a string is expected

Threads == {"t1", "t2"}
Services == {"gemini", "alpha_vantage"}

\* Seconds by which one Tick advances datetime.now(): the length of a
\* cooldown, so that a cooldown entered before the tick has passed after it.
TickSeconds == CooldownSeconds

VARIABLES
    now,            \* datetime.now(), in seconds
    rate_limiter,   \* RateLimitManager: service -> RateLimitStatus fields
    jobs,           \* JobTracker._jobs: job id -> JobInfo
    news,           \* table news_records, a sequence indexed by id
    sentiments,     \* table ticker_sentiments: ticker -> aggregate row
    news_cache,     \* news_cache files: set of [ticker, time_to, items]
    watchlist,      \* table watchlist_tickers: its rows, in id order
    client,         \* ia_analisis._client is initialised
    pc,             \* thread -> position in the code
    loc,            \* thread -> local variables of the running entry point
    runs,           \* entry points started so far
    call,           \* the last direct method call and its outcome
    agg             \* the NewsAggregator.fetch_all call in progress

vars == <<now, rate_limiter, jobs, news, sentiments, news_cache, watchlist, client,
          pc, loc, runs, call, agg>>

\* ------------------------------------------------ RateLimitStatus
\* A RateLimitStatus object: cooldown_until, message and the holder of
\* _lock.  Between steps _lock is free unless a thread is stuck inside a
\* method while holding it.
NewStatus == [cooldown_until |-> None, message |-> NoneStr, lock |-> NoneStr]

\* threading.Lock is not reentrant: acquire succeeds only on a free lock,
\* also when the holder is the acquiring thread itself.
CanAcquire(st) == st.lock = NoneStr

\* Result of a method: the object afterwards and what the caller sees:
\* out = "blocked" (the call never returns), or the returned value.
Outcome(st, out) == [st |-> st, out |-> out]

\* clear_cooldown(): with self._lock: cooldown_until = None; message = None
clear_cooldown(t, st) ==
    IF ~CanAcquire(st)
    THEN Outcome(st, "blocked")
    ELSE Outcome([st EXCEPT !.cooldown_until = None, !.message = NoneStr], "none")

\* is_available() as it would be without the comparison against
\* cooldown_until: it answers true whenever it gets the lock.
is_available_unchecked(t, st) ==
    IF ~CanAcquire(st) THEN Outcome(st, "blocked") ELSE Outcome(st, "true")

\* is_available(): with self._lock: ... self.clear_cooldown() is called
\* while this thread holds _lock.
is_available(t, st) ==
    IF ~CanAcquire(st) THEN Outcome(st, "blocked")
    ELSE IF st.cooldown_until = None THEN Outcome(st, "true")
    ELSE IF now >= st.cooldown_until
         THEN LET held == [st EXCEPT !.lock = t]
                  r == clear_cooldown(t, held)
              IN  IF r.out = "blocked"
                  THEN Outcome(held, "blocked")
                  ELSE Outcome([r.st EXCEPT !.lock = NoneStr], "true")
    ELSE Outcome(st, "false")

\* The cooldown of a status object is set and has not passed.
InCooldown(st) == st.cooldown_until /= None /\ now < st.cooldown_until

\* enter_cooldown(message, cooldown_seconds): duration = cooldown_seconds or
\* self.cooldown_seconds (0 and None both fall back to the default).
enter_cooldown(t, st, message, cooldown_seconds) ==
    IF ~CanAcquire(st) THEN Outcome(st, "blocked")
    ELSE LET duration == IF cooldown_seconds = None \/ cooldown_seconds = 0
                         THEN CooldownSeconds ELSE cooldown_seconds
         IN  Outcome([st EXCEPT !.cooldown_until = now + duration,
                                !.message = message], "none")

\* get_remaining_cooldown(): None without a cooldown, else
\* max(0, int(cooldown_until - now)); returned as a number, None == -1.
get_remaining_cooldown(t, st) ==
    IF ~CanAcquire(st) THEN [st |-> st, out |-> "blocked", value |-> None]
    ELSE IF st.cooldown_until = None THEN [st |-> st, out |-> "value", value |-> None]
    ELSE LET remaining == st.cooldown_until - now
         IN  [st |-> st, out |-> "value",
              value |-> IF remaining > 0 THEN remaining ELSE 0]

\* get_status(): with self._lock: available = self.is_available() is called
\* while this thread holds _lock; the dictionary's 'available' is returned.
get_status(t, st) ==
    IF ~CanAcquire(st) THEN Outcome(st, "blocked")
    ELSE LET held == [st EXCEPT !.lock = t]
             r == is_available(t, held)
         IN  IF r.out = "blocked"
             THEN Outcome(held, "blocked")
             ELSE Outcome([r.st EXCEPT !.lock = NoneStr], r.out)


\* ----------------------------------------------------- JobTracker
JobIds == {"fetch_all_news", "fetch_news_ticker", "analyze_pending"}

\* A job's result payload (the dict a job returns), or no payload.
NoResult == [kind |-> "none", success |-> FALSE, reason |-> NoneStr,
             count |-> 0, error_count |-> 0]
Result(success, reason, count, error_count) ==
    [kind |-> "dict", success |-> success, reason |-> reason,
     count |-> count, error_count |-> error_count]

\* JobInfo(job_id, status=IDLE): the other fields default to None.
JobInfo(status) ==
    [status |-> status, last_run_time |-> None, last_duration |-> None,
     last_result |-> NoResult, error |-> NoneStr]

\* JobTracker.__init__: the three known jobs, idle.
NewTracker == [j \in JobIds |-> JobInfo("idle")]

\* Python truthiness of an Optional[str]: None and "" are both false.
Truthy(s) == s /= NoneStr /\ s /= ""

\* start_job as it would be without the line that resets the error.
start_job_keeps_error(tr, job_id) ==
    [tr EXCEPT ![job_id].status = "running",
               ![job_id].last_run_time = now]

\* start_job(job_id) on a known job.
start_job(tr, job_id) ==
    [tr EXCEPT ![job_id].status = "running",
               ![job_id].last_run_time = now,
               ![job_id].error = NoneStr]

\* complete_job as it would be if a run without error were reported with the
\* status the enum and the status endpoint name for it.
complete_job_completed(tr, job_id, duration, result, error) ==
    [tr EXCEPT ![job_id].status = IF Truthy(error) THEN "failed" ELSE "completed",
               ![job_id].last_duration = duration,
               ![job_id].last_result = result,
               ![job_id].error = error]

\* complete_job(job_id, duration, result, error).
complete_job(tr, job_id, duration, result, error) ==
    [tr EXCEPT ![job_id].status = IF Truthy(error) THEN "failed" ELSE "idle",
               ![job_id].last_duration = duration,
               ![job_id].last_result = result,
               ![job_id].error = error]

\* is_job_running(job_id).
is_job_running(tr, job_id) == tr[job_id].status = "running"

\* ---------------------------------------------------- entry points
\* The tracked wrappers: the scheduler's and the manual triggers'.
Wrappers == {"_tracked_fetch_all_news", "run_fetch_all_news",
             "_tracked_analyze_pending", "run_analyze_pending",
             "run_fetch_news_ticker"}
Scheduled == {"_tracked_fetch_all_news", "_tracked_analyze_pending"}

JobIdOf(w) ==
    CASE w \in {"_tracked_fetch_all_news", "run_fetch_all_news"} -> "fetch_all_news"
      [] w \in {"_tracked_analyze_pending", "run_analyze_pending"} -> "analyze_pending"
      [] OTHER -> "fetch_news_ticker"

\* The provider a job depends on.
ServiceOf(w) ==
    IF JobIdOf(w) = "analyze_pending" THEN "gemini" ELSE "alpha_vantage"

\* The tickers the jobs work on and the articles (by URL) the provider has
\* for each.
Tickers == <<"AAPL", "TSLA">>
Articles(ticker) == IF ticker = "AAPL" THEN <<"a1">> ELSE <<"s1">>

\* A row of watchlist_tickers (src/database.py).
WatchlistTicker(ticker, name, added_at, is_active) ==
    [ticker |-> ticker, name |-> name, added_at |-> added_at, is_active |-> is_active]

\* order_by(added_at.desc()): rows added at the same time stay in id order.
RECURSIVE ByAddedAtDesc(_)
ByAddedAtDesc(rows) ==
    IF rows = <<>> THEN <<>>
    ELSE LET row == rows[Len(rows)]
             sorted == ByAddedAtDesc(SubSeq(rows, 1, Len(rows) - 1))
             older == {n \in 1..Len(sorted) : sorted[n].added_at < row.added_at}
             pos == IF older = {} THEN Len(sorted) + 1
                    ELSE CHOOSE n \in older : \A m \in older : n <= m
         IN  SubSeq(sorted, 1, pos - 1) \o <<row>> \o SubSeq(sorted, pos, Len(sorted))

\* get_all_tickers(include_inactive=False): the symbols of the active rows,
\* newest first.
get_all_tickers(rows) ==
    LET active == ByAddedAtDesc(SelectSeq(rows, LAMBDA row : row.is_active))
    IN  [n \in 1..Len(active) |-> active[n].ticker]

NoExc == "<no exception>"
\* str(e) of a persistence failure: some text, or an empty message.
DbErrors == {"database is locked", ""}

\* Locals of a thread outside any entry point.
NoLocals ==
    [kind |-> NoneStr, ticker |-> NoneStr, todo |-> <<>>, n_tickers |-> 0,
     time_to |-> None, use_cache |-> FALSE, attempt |-> 0, items |-> <<>>,
     pending |-> <<>>, news_id |-> 0, analysis |-> NoneStr, processed |-> {},
     count |-> 0, error_count |-> 0, start_time |-> None,
     result |-> NoResult, exc |-> NoExc,
     \* history of the run, read only by the properties
     met_cooldown |-> FALSE, persist_error |-> NoExc,
     checked_free |-> FALSE, signal |-> FALSE]

\* No aggregation is in progress.
NoAgg == [at |-> "idle"]

\* No direct call has been made.
NoCall == [op |-> NoneStr, service |-> NoneStr, out |-> NoneStr,
           before |-> NewStatus, streak |-> 0]

Init ==
    /\ now = 0
    /\ rate_limiter = [s \in Services |-> NewStatus]
    /\ jobs = NewTracker
    /\ news = <<>>
    /\ sentiments = [k \in {} |-> 0]
    /\ news_cache = {}
    /\ watchlist = <<WatchlistTicker("AAPL", NoneStr, 0, TRUE),
                      WatchlistTicker("TSLA", NoneStr, 0, FALSE)>>
    /\ client = FALSE
    /\ pc = [t \in Threads |-> "idle"]
    /\ loc = [t \in Threads |-> NoLocals]
    /\ runs = 0
    /\ call = NoCall
    /\ agg = NoAgg

Set(t, fields) == [loc EXCEPT ![t] = fields]
Goto(t, label) == pc' = [pc EXCEPT ![t] = label]

\* datetime.now() advances.
Tick ==
    /\ now + TickSeconds <= MaxTicks * TickSeconds
    /\ now' = now + TickSeconds
    /\ UNCHANGED <<rate_limiter, jobs, news, sentiments, news_cache, watchlist,
                   client, pc, loc, runs, call, agg>>

\* A wrapper is started on a worker thread.  The scheduler runs at most one
\* instance of each of its jobs (max_instances=1); the trigger endpoints
\* answer 409 instead of queueing while is_job_running(job_id); the
\* per-ticker endpoint queues unconditionally.
Trigger(t, w, ticker) ==
    /\ pc[t] = "idle"
    /\ runs < MaxRuns
    /\ w \in Scheduled =>
           \A u \in Threads : ~(pc[u] /= "idle" /\ loc[u].kind = w)
    /\ w \in {"run_fetch_all_news", "run_analyze_pending"} =>
           ~is_job_running(jobs, JobIdOf(w))
    /\ runs' = runs + 1
    /\ loc' = Set(t, [NoLocals EXCEPT !.kind = w,
                        !.ticker = IF w = "run_fetch_news_ticker"
                                   THEN ticker ELSE NoneStr])
    /\ Goto(t, IF w = "run_fetch_news_ticker" THEN "start_job" ELSE "is_job_running")
    /\ UNCHANGED <<now, rate_limiter, jobs, news, sentiments, news_cache,
                   watchlist, client, call, agg>>

\* if tracker.is_job_running(job_id): return
CheckRunning(t) ==
    /\ pc[t] = "is_job_running"
    /\ IF is_job_running(jobs, JobIdOf(loc[t].kind))
       THEN /\ Goto(t, "idle")
            /\ loc' = Set(t, NoLocals)
       ELSE /\ Goto(t, "start_job")
            /\ UNCHANGED loc
    /\ UNCHANGED <<now, rate_limiter, jobs, news, sentiments, news_cache,
                   watchlist, client, runs, call, agg>>

\* tracker.start_job(job_id); start_time = time.perf_counter()
StartJob(t) ==
    /\ pc[t] = "start_job"
    /\ jobs' = start_job(jobs, JobIdOf(loc[t].kind))
    /\ IF loc[t].kind = "run_fetch_news_ticker"
       THEN \* fetch_news_for_ticker(ticker, hours=24): fetch_news_data(...,
            \* use_cache=False) is its first shared operation
            /\ loc' = Set(t, [loc[t] EXCEPT !.start_time = now, !.time_to = now,
                                             !.use_cache = FALSE, !.attempt = 1])
            /\ Goto(t, "fetch_available")
       ELSE /\ loc' = Set(t, [loc[t] EXCEPT !.start_time = now])
            /\ Goto(t, "job_available")
    /\ UNCHANGED <<now, rate_limiter, news, sentiments, news_cache,
                   watchlist, client, runs, call, agg>>

\* tracker.complete_job(job_id, duration, result) after the body returned,
\* or complete_job(job_id, duration, error=str(e)) after it raised.
Complete(t) ==
    /\ pc[t] = "complete_job"
    /\ LET duration == now - loc[t].start_time
       IN  jobs' = IF loc[t].exc = NoExc
                   THEN complete_job(jobs, JobIdOf(loc[t].kind), duration,
                                     loc[t].result, NoneStr)
                   ELSE complete_job(jobs, JobIdOf(loc[t].kind), duration,
                                     NoResult, loc[t].exc)
    /\ Goto(t, "idle")
    /\ loc' = Set(t, NoLocals)
    /\ UNCHANGED <<now, rate_limiter, news, sentiments, news_cache,
                   watchlist, client, runs, call, agg>>

\* A thread stuck in a lock acquisition that can never succeed.
Block(t) == Goto(t, "blocked")

SetService(s, st) == rate_limiter' = [rate_limiter EXCEPT ![s] = st]

\* -------------------------------------------- job-level cooldown check
\* fetch_all_news_job / analyze_pending_news_job / analyze_all_pending:
\*   if not rate_limiter.<service>.is_available():
JobAvailable(t) ==
    /\ pc[t] = "job_available"
    /\ LET s == ServiceOf(loc[t].kind)
           r == is_available(t, rate_limiter[s])
       IN  /\ SetService(s, r.st)
           /\ CASE r.out = "blocked" -> Block(t) /\ UNCHANGED loc
                [] r.out = "false" ->
                     /\ Goto(t, "job_remaining")
                     /\ loc' = Set(t, [loc[t] EXCEPT !.met_cooldown = TRUE])
                [] OTHER ->
                     /\ Goto(t, IF s = "gemini" THEN "get_pending_news"
                                ELSE "get_all_tickers")
                     /\ UNCHANGED loc
    /\ UNCHANGED <<now, jobs, news, sentiments, news_cache, watchlist, client,
                   runs, call, agg>>

\*   remaining = rate_limiter.<service>.get_remaining_cooldown()
\*   return {"success": False, "reason": "<service>_cooldown", ...}
JobRemaining(t) ==
    /\ pc[t] = "job_remaining"
    /\ LET s == ServiceOf(loc[t].kind)
           r == get_remaining_cooldown(t, rate_limiter[s])
       IN  IF r.out = "blocked"
           THEN Block(t) /\ UNCHANGED loc
           ELSE /\ Goto(t, "complete_job")
                /\ loc' = Set(t, [loc[t] EXCEPT !.result =
                       Result(FALSE, IF s = "gemini" THEN "gemini_cooldown"
                                     ELSE "alpha_vantage_cooldown", 0, 0)])
    /\ UNCHANGED <<now, rate_limiter, jobs, news, sentiments, news_cache,
                   watchlist, client, runs, call, agg>>

\* ------------------------------------------------------- fetch jobs
\* What tenacity raises once the attempts are used up: reraise is not set,
\* so the last exception is wrapped in a RetryError.
RetryRaises(last_exception) == "RetryError"

\* fetch_news_for_ticker: except NewsRetrievalError.
CatchesRetrievalError(exc_type) == exc_type = "NewsRetrievalError"

\* The fetch-all loop moves to the next ticker, or returns its result.
\* l: the locals after the current ticker was handled.
AfterTicker(l) ==
    IF l.todo = <<>>
    THEN [pc |-> "complete_job",
          loc |-> [l EXCEPT !.result = Result(TRUE, NoneStr, l.count, l.error_count)]]
    ELSE [pc |-> "fetch_available",
          loc |-> [l EXCEPT !.ticker = Head(l.todo), !.todo = Tail(l.todo),
                            !.attempt = 1, !.items = <<>>]]

\* fetch_news_data returned news_items to its caller.
FetchReturned(l, news_items) ==
    IF l.kind = "get_news_data"
    THEN [pc |-> "returned", loc |-> [l EXCEPT !.items = news_items]]
    ELSE IF news_items /= <<>>
    THEN [pc |-> "save_news_items", loc |-> [l EXCEPT !.items = news_items]]
    ELSE IF l.kind = "run_fetch_news_ticker"
    THEN [pc |-> "complete_job",
          loc |-> [l EXCEPT !.result = Result(TRUE, NoneStr, 0, 0)]]
    ELSE AfterTicker(l)

\* An attempt of fetch_news_data raised NewsRetrievalError: tenacity sleeps
\* and runs the next attempt, or gives up after MaxAttempts.  In the
\* fetch-all loop every exception is caught and counted; in
\* fetch_news_for_ticker only NewsRetrievalError is caught, anything else
\* reaches run_fetch_news_ticker.
FetchRaised(l) ==
    IF l.attempt < MaxAttempts
    THEN [pc |-> "fetch_available", loc |-> [l EXCEPT !.attempt = @ + 1]]
    ELSE LET exc_type == RetryRaises("NewsRetrievalError")
         IN  IF l.kind = "get_news_data"
             THEN \* except NewsRetrievalError: return []
                  [pc |-> "returned",
                   loc |-> IF CatchesRetrievalError(exc_type) THEN l
                           ELSE [l EXCEPT !.exc = "RetryError[NewsRetrievalError]"]]
             ELSE IF l.kind = "_tracked_fetch_all_news" \/ l.kind = "run_fetch_all_news"
             THEN AfterTicker([l EXCEPT !.error_count = @ + 1])
             ELSE IF CatchesRetrievalError(exc_type)
             THEN [pc |-> "complete_job",
                   loc |-> [l EXCEPT !.result = Result(FALSE, NoneStr, 0, 0)]]
             ELSE [pc |-> "complete_job",
                   loc |-> [l EXCEPT !.exc = "RetryError[NewsRetrievalError]"]]

Jump(t, to) == Goto(t, to.pc) /\ loc' = Set(t, to.loc)

\* get_all_tickers(include_inactive=False), then the loop starts; a failing
\* session reaches the wrapper.
GetAllTickers(t) ==
    /\ pc[t] = "get_all_tickers"
    /\ \/ \E e \in DbErrors :
             /\ Goto(t, "complete_job")
             /\ loc' = Set(t, [loc[t] EXCEPT !.exc = e])
       \/ LET tickers == get_all_tickers(watchlist)
          IN  IF tickers = <<>>
              THEN /\ Goto(t, "complete_job")
                   /\ loc' = Set(t, [loc[t] EXCEPT !.result = Result(TRUE, NoneStr, 0, 0)])
              ELSE Jump(t, AfterTicker([loc[t] EXCEPT !.todo = tickers,
                                          !.n_tickers = Len(tickers),
                                          !.time_to = now, !.use_cache = TRUE]))
    /\ UNCHANGED <<now, rate_limiter, jobs, news, sentiments, news_cache,
                   watchlist, client, runs, call, agg>>

\* news_cache.get(ticker, time_from, time_to): the cached list or <<>>.
\* (The 24 h TTL cannot pass within the model's clock.)
CacheGet(ticker, time_to) ==
    LET hit == {c \in news_cache : c.ticker = ticker /\ c.time_to = time_to}
    IN  IF hit = {} THEN <<>> ELSE (CHOOSE c \in hit : TRUE).items

\* news_cache.set(items, ticker, time_from, time_to): the file is rewritten.
CacheSet(ticker, time_to, items) ==
    {c \in news_cache : ~(c.ticker = ticker /\ c.time_to = time_to)}
      \cup {[ticker |-> ticker, time_to |-> time_to, items |-> items]}

\* fetch_news_data, one attempt, up to the request:
\*   if not rate_limiter.alpha_vantage.is_available(): ...
\*   if use_cache: cached_data = news_cache.get(...); if cached_data: return
FetchAvailable(t) ==
    /\ pc[t] = "fetch_available"
    /\ LET r == is_available(t, rate_limiter["alpha_vantage"])
           cached == IF loc[t].use_cache
                     THEN CacheGet(loc[t].ticker, loc[t].time_to) ELSE <<>>
       IN  /\ SetService("alpha_vantage", r.st)
           /\ CASE r.out = "blocked" -> Block(t) /\ UNCHANGED loc
                [] r.out = "false" ->
                     /\ Goto(t, "fetch_remaining")
                     /\ loc' = Set(t, [loc[t] EXCEPT !.met_cooldown = TRUE])
                [] OTHER ->
                     IF cached /= <<>>
                     THEN Jump(t, FetchReturned(loc[t], cached))
                     ELSE /\ Goto(t, "request")
                          /\ loc' = Set(t, [loc[t] EXCEPT !.checked_free = ~InCooldown(r.st)])
    /\ UNCHANGED <<now, jobs, news, sentiments, news_cache, watchlist,
                   client, runs, call, agg>>

\*   remaining = rate_limiter.alpha_vantage.get_remaining_cooldown()
\*   raise NewsRetrievalError(f"API in cooldown, {remaining}s remaining")
FetchRemaining(t) ==
    /\ pc[t] = "fetch_remaining"
    /\ LET r == get_remaining_cooldown(t, rate_limiter["alpha_vantage"])
       IN  IF r.out = "blocked"
           THEN Block(t) /\ UNCHANGED loc
           ELSE Jump(t, FetchRaised(loc[t]))
    /\ UNCHANGED <<now, rate_limiter, jobs, news, sentiments, news_cache,
                   watchlist, client, runs, call, agg>>

\* Phrases the code searches a Note / Information text for.
Phrases == {"rate limit", "frequency", "call volume"}
Texts == {{}} \cup {{p} : p \in Phrases}

\* The non-empty lists of articles the provider may return for a ticker.
Feeds(ticker) ==
    LET a == Articles(ticker)
    IN  {a} \cup {<<a[i]>> : i \in 1..Len(a)}

\* What one request to Alpha Vantage can come back with: a timeout, an
\* HTTP error status, a body that is not JSON, or a 200 body carrying an
\* "Error Message", a "Note", an "Information" or a (possibly empty) "feed".
Response(status, field, text, feed) ==
    [status |-> status, field |-> field, text |-> text, feed |-> feed]
AVResponses(ticker) ==
    {Response(s, NoneStr, {}, <<>>) : s \in {"timeout", "429", "500", "invalid json"}}
      \cup {Response("200", "Error Message", {}, <<>>)}
      \cup {Response("200", f, x, <<>>) : f \in {"Note", "Information"}, x \in Texts}
      \cup {Response("200", "feed", {}, fd) : fd \in Feeds(ticker) \cup {<<>>}}

\* fetch_news_data from the request on: the cooldown message it enters
\* (NoneStr: none), whether it raises NewsRetrievalError, and the list it
\* returns otherwise.
Handled(cooldown, raises, news_list) ==
    [cooldown |-> cooldown, raises |-> raises, news_list |-> news_list]
\* HandleResponse as it would be without the "Information" check: only
\* HTTP 429 and a "Note" enter the cooldown.
HandleResponse_NoInformation(resp) ==
    CASE resp.status = "timeout" -> Handled(NoneStr, TRUE, <<>>)
      [] resp.status = "429" -> Handled("Rate limit exceeded (429)", TRUE, <<>>)
      [] resp.status = "500" -> Handled(NoneStr, TRUE, <<>>)
      [] resp.status = "invalid json" -> Handled(NoneStr, TRUE, <<>>)
      [] resp.field = "Error Message" -> Handled(NoneStr, TRUE, <<>>)
      [] resp.field = "Note" /\ resp.text \cap {"rate limit", "frequency", "call volume"} /= {}
           -> Handled("Rate limit exceeded: <note>", TRUE, <<>>)
      [] OTHER -> Handled(NoneStr, FALSE, resp.feed)

HandleResponse(resp) ==
    CASE resp.status = "timeout" -> Handled(NoneStr, TRUE, <<>>)
      [] resp.status = "429" -> Handled("Rate limit exceeded (429)", TRUE, <<>>)
      [] resp.status = "500" -> Handled(NoneStr, TRUE, <<>>)
      [] resp.status = "invalid json" -> Handled(NoneStr, TRUE, <<>>)
      [] resp.field = "Error Message" -> Handled(NoneStr, TRUE, <<>>)
      [] resp.field = "Note" /\ resp.text \cap {"rate limit", "frequency", "call volume"} /= {}
           -> Handled("Rate limit exceeded: <note>", TRUE, <<>>)
      [] resp.field = "Information" /\ resp.text \cap {"rate limit", "frequency"} /= {}
           -> Handled("Rate limit exceeded: <info>", TRUE, <<>>)
      [] OTHER -> Handled(NoneStr, FALSE, resp.feed)

\* A provider-side rate-limit signal as the design names it: HTTP 429, or a
\* 200 body whose Note / Information text says "rate limit".
RateLimitSignal(resp) ==
    \/ resp.status = "429"
    \/ resp.status = "200" /\ resp.field \in {"Note", "Information"}
                           /\ "rate limit" \in resp.text

\* fetch_news_data, the rest of the attempt: the request is issued and its
\* response handled.  (_rate_limited_request may first sleep to keep to 5
\* calls a minute: time passing before this step.)
FetchRequest(t) ==
    /\ pc[t] = "request"
    /\ \E resp \in AVResponses(loc[t].ticker) :
         LET h == HandleResponse(resp)
             r == IF h.cooldown = NoneStr
                  THEN Outcome(rate_limiter["alpha_vantage"], "none")
                  ELSE enter_cooldown(t, rate_limiter["alpha_vantage"],
                                      h.cooldown, CooldownSeconds)
             l == [loc[t] EXCEPT !.met_cooldown = @ \/ h.cooldown /= NoneStr,
                                 !.signal = RateLimitSignal(resp),
                                 !.checked_free = FALSE]
         IN  /\ SetService("alpha_vantage", r.st)
             /\ IF r.out = "blocked"
                THEN Block(t) /\ loc' = Set(t, l) /\ UNCHANGED news_cache
                ELSE IF h.raises
                THEN Jump(t, FetchRaised(l)) /\ UNCHANGED news_cache
                ELSE /\ Jump(t, FetchReturned(l, h.news_list))
                     /\ news_cache' = IF l.use_cache /\ h.news_list /= <<>>
                                      THEN CacheSet(l.ticker, l.time_to, h.news_list)
                                      ELSE news_cache
    /\ UNCHANGED <<now, jobs, news, sentiments, watchlist, client, runs, call, agg>>

\* ------------------------------------------------------ news_records
NewsRecord(ticker, url) ==
    [ticker |-> ticker, url |-> url, status |-> "pending",
     analyzed_at |-> None, sentiment |-> NoneStr, justification |-> NoneStr]

RECURSIVE SaveAll(_, _, _)
\* save_news_items: save_news_item for each item; an item whose URL is
\* already stored is skipped.
SaveAll(table, ticker, items) ==
    IF items = <<>> THEN table
    ELSE LET url == Head(items)
             dup == \E i \in 1..Len(table) : table[i].url = url
         IN  SaveAll(IF dup THEN table ELSE Append(table, NewsRecord(ticker, url)),
                     ticker, Tail(items))

\* saved = save_news_items(ticker, news_items), or one of its sessions
\* fails after the first k items went through.
SaveNews(t) ==
    /\ pc[t] = "save_news_items"
    /\ LET l == loc[t]
       IN  \/ LET table == SaveAll(news, l.ticker, l.items)
                  saved == Len(table) - Len(news)
              IN  /\ news' = table
                  /\ IF l.kind = "run_fetch_news_ticker"
                     THEN Jump(t, [pc |-> "complete_job",
                                   loc |-> [l EXCEPT !.result = Result(TRUE, NoneStr, saved, 0)]])
                     ELSE Jump(t, AfterTicker([l EXCEPT !.count = @ + saved]))
           \/ \E e \in DbErrors, k \in 0..(Len(l.items) - 1) :
                /\ news' = SaveAll(news, l.ticker, SubSeq(l.items, 1, k))
                /\ IF l.kind = "run_fetch_news_ticker"
                   THEN Jump(t, [pc |-> "complete_job",
                                 loc |-> [l EXCEPT !.exc = e, !.persist_error = e]])
                   ELSE Jump(t, AfterTicker([l EXCEPT !.error_count = @ + 1,
                                                       !.persist_error = e]))
    /\ UNCHANGED <<now, rate_limiter, jobs, sentiments, news_cache, watchlist,
                   client, runs, call, agg>>

\* ----------------------------------------------------- analyze jobs
\* analyze_pending_news_job(batch_size=10) / analyze_all_pending (limit=1000)
BatchSize == 10
LargeLimit == 1000
LimitOf(w) == IF w = "_tracked_analyze_pending" THEN BatchSize ELSE LargeLimit

\* get_pending_news(limit): the pending records, oldest fetched_at first (ids
\* are handed out in fetch order), at most limit of them.
get_pending_news(table, limit) ==
    LET ids == SelectSeq([i \in 1..Len(table) |-> i],
                         LAMBDA i : table[i].status = "pending")
    IN  IF Len(ids) > limit THEN SubSeq(ids, 1, limit) ELSE ids

\* The categories the classifier answers with in the job runs.
Answers == {"Positive", "Highly Negative"}

\* The batch loop moves to the next record, or goes on to the aggregates
\* of the tickers it analyzed, or returns its result.
AfterNews(l) ==
    IF l.pending /= <<>>
    THEN [pc |-> "analyze_available",
          loc |-> [l EXCEPT !.news_id = Head(l.pending), !.pending = Tail(l.pending),
                            !.attempt = 1, !.analysis = NoneStr]]
    ELSE LET todo == SelectSeq(Tickers, LAMBDA k : k \in l.processed)
         IN  IF todo = <<>>
             THEN [pc |-> "complete_job",
                   loc |-> [l EXCEPT !.result = Result(TRUE, NoneStr, l.count, l.error_count)]]
             ELSE [pc |-> "update_ticker_sentiment", loc |-> [l EXCEPT !.todo = todo]]

\* pending_news = get_pending_news(limit=...); a failing session reaches the
\* wrapper.
GetPendingNews(t) ==
    /\ pc[t] = "get_pending_news"
    /\ \/ \E e \in DbErrors :
             /\ Goto(t, "complete_job")
             /\ loc' = Set(t, [loc[t] EXCEPT !.exc = e])
       \/ LET pending_news == get_pending_news(news, LimitOf(loc[t].kind))
          IN  IF pending_news = <<>>
              THEN /\ Goto(t, "complete_job")
                   /\ loc' = Set(t, [loc[t] EXCEPT !.result = Result(TRUE, NoneStr, 0, 0)])
              ELSE Jump(t, AfterNews([loc[t] EXCEPT !.pending = pending_news]))
    /\ UNCHANGED <<now, rate_limiter, jobs, news, sentiments, news_cache,
                   watchlist, client, runs, call, agg>>

\* A variant in which a classification failure leaves the batch loop as an
\* exception.
AnalysisNone_Aborts(l) ==
    IF l.kind = "analyze_news_with_gemini"
    THEN [pc |-> "returned", loc |-> l]
    ELSE [pc |-> "complete_job",
          loc |-> [l EXCEPT !.error_count = @ + 1, !.exc = "AnalysisError"]]

\* analyze_sentiment returned None: the job counts an error.
AnalysisNone(l) ==
    IF l.kind = "analyze_news_with_gemini"
    THEN [pc |-> "returned", loc |-> l]
    ELSE AfterNews([l EXCEPT !.error_count = @ + 1])

\* analyze_sentiment returned an analysis.
AnalysisReturned(l, sentiment) ==
    [pc |-> IF l.kind = "analyze_news_with_gemini" THEN "returned"
            ELSE "update_news_analysis",
     loc |-> [l EXCEPT !.analysis = sentiment]]

\* analyze_sentiment used up its attempts: tenacity raises RetryError, which
\* the jobs catch (except Exception) and count, and which the backwards
\* compatible wrapper lets through.
AnalysisRaised(l) ==
    IF l.kind = "analyze_news_with_gemini"
    THEN [pc |-> "returned", loc |-> [l EXCEPT !.exc = "RetryError[AnalysisError]"]]
    ELSE AfterNews([l EXCEPT !.error_count = @ + 1])

\* analyze_sentiment, one attempt, up to the request:
\*   if not rate_limiter.gemini.is_available(): ... return None
\*   client = _get_client()     (AnalysisError if the client cannot be made;
\*                               tenacity retries AnalysisError)
AnalyzeAvailable(t) ==
    /\ pc[t] = "analyze_available"
    /\ LET r == is_available(t, rate_limiter["gemini"])
           l == loc[t]
       IN  /\ SetService("gemini", r.st)
           /\ CASE r.out = "blocked" -> Block(t) /\ UNCHANGED <<loc, client>>
                [] r.out = "false" ->
                     /\ Goto(t, "analyze_remaining")
                     /\ loc' = Set(t, [l EXCEPT !.met_cooldown = TRUE])
                     /\ UNCHANGED client
                [] OTHER ->
                     \/ /\ client' = TRUE
                        /\ Goto(t, "generate")
                        /\ loc' = Set(t, [l EXCEPT !.checked_free = ~InCooldown(r.st)])
                     \/ /\ ~client
                        /\ UNCHANGED client
                        /\ IF l.attempt < MaxAttempts
                           THEN Jump(t, [pc |-> "analyze_available",
                                         loc |-> [l EXCEPT !.attempt = @ + 1]])
                           ELSE Jump(t, AnalysisRaised(l))
    /\ UNCHANGED <<now, jobs, news, sentiments, news_cache, watchlist, runs, call, agg>>

\*   remaining = rate_limiter.gemini.get_remaining_cooldown(); return None
AnalyzeRemaining(t) ==
    /\ pc[t] = "analyze_remaining"
    /\ LET r == get_remaining_cooldown(t, rate_limiter["gemini"])
       IN  IF r.out = "blocked"
           THEN Block(t) /\ UNCHANGED loc
           ELSE Jump(t, AnalysisNone(loc[t]))
    /\ UNCHANGED <<now, rate_limiter, jobs, news, sentiments, news_cache,
                   watchlist, client, runs, call, agg>>

\* What one generate_content call can come back with: a JSON answer naming
\* a category, text that is not JSON, JSON that fails validation, a
\* ClientError or another exception; an error's text may mention "429",
\* "quota" or "rate limit".
Mentions == {"429", "quota", "rate limit", "other"}
GeminiResponses ==
    {[kind |-> "answer", text |-> c] : c \in Answers}
      \cup {[kind |-> k, text |-> "other"] : k \in {"invalid json", "invalid answer"}}
      \cup {[kind |-> k, text |-> m] : k \in {"ClientError", "Exception"}, m \in Mentions}

\* analyze_sentiment from the request on: the cooldown message it enters
\* (NoneStr: none) and the category it returns (NoneStr: it returns None).
Analyzed(cooldown, sentiment) == [cooldown |-> cooldown, sentiment |-> sentiment]
HandleGemini(resp) ==
    CASE resp.kind = "answer" -> Analyzed(NoneStr, resp.text)
      [] resp.kind = "ClientError" /\ resp.text \in {"429", "quota", "rate limit"}
           -> Analyzed("Rate limit exceeded (429)", NoneStr)
      [] resp.kind = "ClientError" -> Analyzed(NoneStr, NoneStr)
      [] resp.kind = "invalid json" -> Analyzed(NoneStr, NoneStr)
      [] resp.text \in {"429", "quota", "rate limit"}
           -> Analyzed("Rate limit exceeded", NoneStr)
      [] OTHER -> Analyzed(NoneStr, NoneStr)

\* A provider error mentioning 429, quota or rate limit.
GeminiSignal(resp) ==
    resp.kind \in {"ClientError", "Exception"} /\ resp.text \in {"429", "quota", "rate limit"}

\* analyze_sentiment, the rest of the attempt: the request and its handling.
AnalyzeRequest(t) ==
    /\ pc[t] = "generate"
    /\ \E resp \in GeminiResponses :
         LET h == HandleGemini(resp)
             r == IF h.cooldown = NoneStr
                  THEN Outcome(rate_limiter["gemini"], "none")
                  ELSE enter_cooldown(t, rate_limiter["gemini"], h.cooldown,
                                      CooldownSeconds)
             l == [loc[t] EXCEPT !.met_cooldown = @ \/ h.cooldown /= NoneStr,
                                 !.signal = GeminiSignal(resp),
                                 !.checked_free = FALSE]
         IN  /\ SetService("gemini", r.st)
             /\ IF r.out = "blocked"
                THEN Block(t) /\ loc' = Set(t, l)
                ELSE IF h.sentiment = NoneStr
                THEN Jump(t, AnalysisNone(l))
                ELSE Jump(t, AnalysisReturned(l, h.sentiment))
    /\ UNCHANGED <<now, jobs, news, sentiments, news_cache, watchlist, client,
                   runs, call, agg>>

\* update_news_analysis(news_id, sentiment, justification): the record with
\* that id is overwritten, whatever its status.
update_news_analysis(table, news_id, sentiment, justification) ==
    [table EXCEPT ![news_id].sentiment = sentiment,
                  ![news_id].justification = justification,
                  ![news_id].status = "analyzed",
                  ![news_id].analyzed_at = now]

\* if analysis: update_news_analysis(...); processed_tickers.add(ticker);
\* success_count += 1 -- or the session fails and the job counts an error.
UpdateNews(t) ==
    /\ pc[t] = "update_news_analysis"
    /\ LET l == loc[t]
       IN  \/ /\ news' = update_news_analysis(news, l.news_id, l.analysis,
                                              "justification")
              /\ Jump(t, AfterNews([l EXCEPT !.count = @ + 1,
                          !.processed = @ \cup {news[l.news_id].ticker}]))
           \/ \E e \in DbErrors :
                /\ UNCHANGED news
                /\ Jump(t, AfterNews([l EXCEPT !.error_count = @ + 1,
                                               !.persist_error = e]))
    /\ UNCHANGED <<now, rate_limiter, jobs, sentiments, news_cache, watchlist,
                   client, runs, call, agg>>

\* ------------------------------------------------ ticker_sentiments
\* SENTIMENT_SCORES, doubled to stay in the integers (1.0, 0.5, 0, -0.5, -1.0);
\* an unknown label scores 0.
SentimentScores2(sentiment) ==
    CASE sentiment = "Highly Positive" -> 2
      [] sentiment = "Positive" -> 1
      [] sentiment = "Neutral" -> 0
      [] sentiment = "Negative" -> -1
      [] sentiment = "Highly Negative" -> -2
      [] OTHER -> 0

RECURSIVE SumScores2(_, _)
SumScores2(table, ids) ==
    IF ids = {} THEN 0
    ELSE LET i == CHOOSE i \in ids : TRUE
         IN  SentimentScores2(table[i].sentiment) + SumScores2(table, ids \ {i})

\* normalized_score = total_score / total_analyzed against a threshold
\* num/10, with total_score = score2/2:  score2/(2n) >= num/10.
AtLeast(score2, n, num) == 10 * score2 >= 2 * n * num

\* The aggregate row update_ticker_sentiment writes for a ticker: counted
\* from every record of the ticker as the table stands.
update_ticker_sentiment(table, ticker) ==
    LET mine == {i \in 1..Len(table) : table[i].ticker = ticker}
        analyzed == {i \in mine : table[i].status = "analyzed"
                                  /\ table[i].sentiment /= NoneStr}
        n == Cardinality(analyzed)
        score2 == SumScores2(table, analyzed)
        zero == n = 0
    IN  [positive_count |-> Cardinality({i \in analyzed : SentimentScores2(table[i].sentiment) > 0}),
         negative_count |-> Cardinality({i \in analyzed : SentimentScores2(table[i].sentiment) < 0}),
         neutral_count |-> Cardinality({i \in analyzed : SentimentScores2(table[i].sentiment) = 0}),
         total_analyzed |-> n,
         total_pending |-> Cardinality({i \in mine : table[i].status = "pending"}),
         score2 |-> score2,
         sentiment_label |->
             IF ~zero /\ AtLeast(score2, n, 5) THEN "Highly Positive"
             ELSE IF ~zero /\ AtLeast(score2, n, 2) THEN "Positive"
             ELSE IF zero \/ AtLeast(score2, n, -2) THEN "Neutral"
             ELSE IF AtLeast(score2, n, -5) THEN "Negative"
             ELSE "Highly Negative",
         signal |->
             IF ~zero /\ AtLeast(score2, n, 5) THEN "STRONG BUY"
             ELSE IF ~zero /\ AtLeast(score2, n, 2) THEN "BUY"
             ELSE IF zero \/ AtLeast(score2, n, -2) THEN "HOLD"
             ELSE IF AtLeast(score2, n, -5) THEN "SELL"
             ELSE "STRONG SELL"]

\* for ticker in processed_tickers: update_ticker_sentiment(ticker); a
\* failure is logged and the loop goes on.  After the last ticker the job
\* returns its result.
UpdateSentiment(t) ==
    /\ pc[t] = "update_ticker_sentiment"
    /\ LET l == loc[t]
           ticker == Head(l.todo)
           rest == [l EXCEPT !.todo = Tail(l.todo)]
           next(m) == IF m.todo /= <<>>
                      THEN [pc |-> "update_ticker_sentiment", loc |-> m]
                      ELSE [pc |-> "complete_job",
                            loc |-> [m EXCEPT !.result =
                                       Result(TRUE, NoneStr, m.count, m.error_count)]]
       IN  \/ /\ sentiments' = [k \in DOMAIN sentiments \cup {ticker} |->
                                  IF k = ticker
                                  THEN update_ticker_sentiment(news, ticker)
                                  ELSE sentiments[k]]
              /\ Jump(t, next(rest))
           \/ \E e \in DbErrors :
                /\ UNCHANGED sentiments
                /\ Jump(t, next([rest EXCEPT !.persist_error = e]))
    /\ UNCHANGED <<now, rate_limiter, jobs, news, news_cache, watchlist,
                   client, runs, call, agg>>

\* ---------------------------------------------------- specification
FetchWrappers == {"_tracked_fetch_all_news", "run_fetch_all_news",
                  "run_fetch_news_ticker"}
AnalyzeWrappers == {"_tracked_analyze_pending", "run_analyze_pending"}

\* The fetch side: the scheduler's and the manual fetch jobs on the worker
\* threads.
Next ==
    \/ Tick
    \/ \E t \in Threads, w \in FetchWrappers, k \in {"AAPL", "TSLA"} : Trigger(t, w, k)
    \/ \E t \in Threads : CheckRunning(t)
    \/ \E t \in Threads : StartJob(t)
    \/ \E t \in Threads : JobAvailable(t)
    \/ \E t \in Threads : JobRemaining(t)
    \/ \E t \in Threads : GetAllTickers(t)
    \/ \E t \in Threads : FetchAvailable(t)
    \/ \E t \in Threads : FetchRemaining(t)
    \/ \E t \in Threads : FetchRequest(t)
    \/ \E t \in Threads : SaveNews(t)
    \/ \E t \in Threads : Complete(t)

Spec == Init /\ [][Next]_vars

\* The analyze side: the scheduler's and the manual analyze jobs, started
\* on a table that earlier fetches have filled with pending records.
InitAnalyze ==
    /\ now = 0
    /\ rate_limiter = [s \in Services |-> NewStatus]
    /\ jobs = NewTracker
    /\ news = <<NewsRecord("AAPL", "a1"), NewsRecord("TSLA", "s1")>>
    /\ sentiments = [k \in {} |-> 0]
    /\ news_cache = {}
    /\ watchlist = <<WatchlistTicker("AAPL", NoneStr, 0, TRUE),
                      WatchlistTicker("TSLA", NoneStr, 0, TRUE)>>
    /\ client = FALSE
    /\ pc = [t \in Threads |-> "idle"]
    /\ loc = [t \in Threads |-> NoLocals]
    /\ runs = 0
    /\ call = NoCall
    /\ agg = NoAgg

NextAnalyze ==
    \/ Tick
    \/ \E t \in Threads, w \in AnalyzeWrappers : Trigger(t, w, NoneStr)
    \/ \E t \in Threads : CheckRunning(t)
    \/ \E t \in Threads : StartJob(t)
    \/ \E t \in Threads : JobAvailable(t)
    \/ \E t \in Threads : JobRemaining(t)
    \/ \E t \in Threads : GetPendingNews(t)
    \/ \E t \in Threads : AnalyzeAvailable(t)
    \/ \E t \in Threads : AnalyzeRemaining(t)
    \/ \E t \in Threads : AnalyzeRequest(t)
    \/ \E t \in Threads : UpdateNews(t)
    \/ \E t \in Threads : UpdateSentiment(t)
    \/ \E t \in Threads : Complete(t)

SpecAnalyze == InitAnalyze /\ [][NextAnalyze]_vars

\* ------------------------------------------------ direct provider calls
\* The provider functions called through their backwards-compatible
\* wrappers, get_news_data(ticker, time_from, time_to) and
\* analyze_news_with_gemini(ticker, text), by any of the process's threads:
\* fetch_news_data and analyze_sentiment on their own, as every caller runs
\* them, without a job around them.
DirectCalls == {"get_news_data", "analyze_news_with_gemini"}

CallProvider(t, f, ticker) ==
    /\ pc[t] = "idle"
    /\ runs < MaxRuns
    \* the ticker of an analysis only enters the prompt: one stands for all
    /\ f = "analyze_news_with_gemini" => ticker = "AAPL"
    /\ runs' = runs + 1
    /\ loc' = Set(t, [NoLocals EXCEPT !.kind = f, !.ticker = ticker,
                        !.time_to = now, !.use_cache = TRUE, !.attempt = 1])
    /\ Goto(t, IF f = "get_news_data" THEN "fetch_available" ELSE "analyze_available")
    /\ UNCHANGED <<now, rate_limiter, jobs, news, sentiments, news_cache,
                   watchlist, client, call, agg>>

\* The wrapper returns to its caller (or lets the RetryError through).
Return(t) ==
    /\ pc[t] = "returned"
    /\ Goto(t, "idle")
    /\ loc' = Set(t, NoLocals)
    /\ UNCHANGED <<now, rate_limiter, jobs, news, sentiments, news_cache,
                   watchlist, client, runs, call, agg>>

NextCalls ==
    \/ Tick
    \/ \E t \in Threads, f \in DirectCalls, k \in {"AAPL", "TSLA"} : CallProvider(t, f, k)
    \/ \E t \in Threads : FetchAvailable(t)
    \/ \E t \in Threads : FetchRemaining(t)
    \/ \E t \in Threads : FetchRequest(t)
    \/ \E t \in Threads : AnalyzeAvailable(t)
    \/ \E t \in Threads : AnalyzeRemaining(t)
    \/ \E t \in Threads : AnalyzeRequest(t)
    \/ \E t \in Threads : Return(t)

SpecCalls == Init /\ [][NextCalls]_vars

\* --------------------------------------- direct RateLimitStatus calls
\* The methods of the two RateLimitStatus objects called one after another
\* by the threads, the clock advancing in between.
Streak(s, st) ==
    IF call.op = "is_available" /\ call.service = s /\ call.streak >= 1
    THEN call.streak + 1
    ELSE IF st.cooldown_until /= None /\ now >= st.cooldown_until THEN 1 ELSE 0

Called(t, op, s, r, streak) ==
    /\ SetService(s, r.st)
    /\ Goto(t, IF r.out = "blocked" THEN "blocked" ELSE "idle")
    /\ call' = [op |-> op, service |-> s, out |-> r.out,
                before |-> rate_limiter[s], streak |-> streak]
    /\ UNCHANGED <<now, jobs, news, sentiments, news_cache, watchlist, client,
                   loc, runs, agg>>

CallIsAvailable(t, s) ==
    /\ pc[t] = "idle"
    /\ Called(t, "is_available", s, is_available(t, rate_limiter[s]),
              Streak(s, rate_limiter[s]))

CallEnterCooldown(t, s, message, cooldown_seconds) ==
    /\ pc[t] = "idle"
    /\ Called(t, "enter_cooldown", s,
              enter_cooldown(t, rate_limiter[s], message, cooldown_seconds), 0)

CallGetRemainingCooldown(t, s) ==
    /\ pc[t] = "idle"
    /\ LET r == get_remaining_cooldown(t, rate_limiter[s])
       IN  Called(t, "get_remaining_cooldown", s,
                  [st |-> r.st, out |-> IF r.out = "blocked" THEN "blocked"
                                        ELSE IF r.value = None THEN "none"
                                        ELSE "seconds"], 0)

\* get_all_status() calls get_status() of each tracker; one such call.
CallGetStatus(t, s) ==
    /\ pc[t] = "idle"
    /\ Called(t, "get_status", s, get_status(t, rate_limiter[s]), 0)

NextRate ==
    \/ Tick
    \/ \E t \in Threads, s \in Services : CallIsAvailable(t, s)
    \/ \E t \in Threads, s \in Services,
          m \in {"Rate limit exceeded (429)", "Rate limit exceeded"},
          d \in {None, CooldownSeconds} : CallEnterCooldown(t, s, m, d)
    \/ \E t \in Threads, s \in Services : CallGetRemainingCooldown(t, s)
    \/ \E t \in Threads, s \in Services : CallGetStatus(t, s)

SpecRate == Init /\ [][NextRate]_vars

\* ------------------------------------------------------- properties
Job(t) == JobIdOf(loc[t].kind)

\* Thread t is executing the body of its job: past start_job and not yet
\* through complete_job.
InBody(t) == pc[t] \notin {"idle", "is_job_running", "start_job", "returned"}

\* Thread t takes the step at label.
Steps(t, label) == pc[t] = label /\ (pc'[t] /= pc[t] \/ loc'[t] /= loc[t])

\* C1: for each no-overlap job id (fetch_all_news, analyze_pending) at most
\* one execution of the job body is in progress at any time.
C1_NoOverlap ==
    \A j \in {"fetch_all_news", "analyze_pending"} :
        Cardinality({t \in Threads : InBody(t) /\ Job(t) = j}) <= 1

\* C2: is_available() returns true when no cooldown is set, and returns true
\* when the current time is at or past cooldown_until, in which case
\* cooldown_until and message are cleared by that call.
C2_ExpiredIsAvailable ==
    (call.op = "is_available" /\ CanAcquire(call.before)) =>
        /\ call.before.cooldown_until = None => call.out = "true"
        /\ (call.before.cooldown_until /= None /\ call.streak = 1) =>
               /\ call.out = "true"
               /\ rate_limiter[call.service].cooldown_until = None
               /\ rate_limiter[call.service].message = NoneStr

\* C3: after a cooldown has expired every one of the consecutive
\* is_available() calls returns true; the first clears the cooldown and each
\* later one leaves cooldown_until = None, message = None as they are.
C3_CooldownIdempotence ==
    (call.op = "is_available" /\ call.streak >= 1) =>
        /\ call.out = "true"
        /\ rate_limiter[call.service].cooldown_until = None
        /\ rate_limiter[call.service].message = NoneStr
        /\ call.streak >= 2 => call.before = rate_limiter[call.service]

\* C4: a provider call made while the service is in cooldown skips: when
\* its first is_available() has answered false, the call ends there, with
\* no wait and no further attempt.
C4_SkipsInCooldown ==
    [][\A t \in Threads :
          ((Steps(t, "fetch_remaining") \/ Steps(t, "analyze_remaining"))
              /\ loc[t].attempt = 1 /\ pc'[t] /= "blocked")
            => loc'[t].attempt <= 1]_vars

\* C5 (as claimed): no request is issued to a provider in a state where that
\* service's cooldown is active.
C5_NoRequestInCooldown ==
    [][\A t \in Threads :
          /\ Steps(t, "request") => ~InCooldown(rate_limiter["alpha_vantage"])
          /\ Steps(t, "generate") => ~InCooldown(rate_limiter["gemini"])]_vars

\* C5 (amended): every request is issued by an attempt whose own
\* is_available() check, made before it, found the service not in cooldown.
C5_CheckedBeforeRequest ==
    \A t \in Threads : pc[t] \in {"request", "generate"} => loc[t].checked_free

\* A request is about to be issued although the cooldown is active: another
\* thread entered it after this thread's check.
C5_Witness ==
    \E t \in Threads :
        /\ pc[t] = "request" /\ loc[t].checked_free
        /\ InCooldown(rate_limiter["alpha_vantage"])

\* is_available() would answer false on this status object now.
AnswersUnavailable(st) == is_available("t1", st).out = "false"

C7_CooldownIsSkippedOutcome ==
    [][\A t \in Threads :
          (Steps(t, "complete_job") /\ loc[t].met_cooldown) =>
              /\ loc[t].exc = NoExc
              /\ jobs'[Job(t)].status = "idle"
              /\ jobs'[Job(t)].error = NoneStr
              /\ jobs'[Job(t)].last_result.kind = "dict"
              /\ ~jobs'[Job(t)].last_result.success]_vars

\* C8: once a news record is analyzed, its status, sentiment, justification
\* and analyzed_at never change again.
C8_AnalyzedIsFinal ==
    [][\A i \in 1..Len(news) :
          news[i].status = "analyzed" => news'[i] = news[i]]_vars

\* C9: a persistence failure in save_news_items, update_news_analysis or
\* update_ticker_sentiment leaves the job failed, with the failure text as
\* the tracker's error.  Stated for failures that carry a text; a failure
\* with an empty text is the case of C10.
C9_PersistenceFailureFailsJob ==
    [][\A t \in Threads :
          (Steps(t, "complete_job") /\ Truthy(loc[t].persist_error)
              /\ loc[t].persist_error /= NoExc) =>
              /\ jobs'[Job(t)].status = "failed"
              /\ jobs'[Job(t)].error = loc[t].persist_error]_vars

\* C10: complete_job sets the status to failed exactly when the run ended
\* with an exception (whatever its text) and to idle otherwise, and stores
\* the duration, result and error it is given.
C10_FailedIffError ==
    [][\A t \in Threads :
          Steps(t, "complete_job") =>
              /\ jobs'[Job(t)].status =
                     (IF loc[t].exc /= NoExc THEN "failed" ELSE "idle")
              /\ jobs'[Job(t)].last_duration = now - loc[t].start_time
              /\ jobs'[Job(t)].last_result =
                     (IF loc[t].exc /= NoExc THEN NoResult ELSE loc[t].result)
              /\ jobs'[Job(t)].error =
                     (IF loc[t].exc /= NoExc THEN loc[t].exc ELSE NoneStr)]_vars

\* ------------------------------------------- direct JobTracker calls
\* The tracker's methods called one after another on the known jobs, with
\* any duration, result and error text, the clock advancing in between.
Durations == {0, TickSeconds}
Payloads == {NoResult, Result(TRUE, NoneStr, 1, 0),
             Result(FALSE, "gemini_cooldown", 0, 0)}
ErrorTexts == {NoneStr} \cup DbErrors

\* The record of a tracker call: the method, the job and the tracker before.
TrackerCall(op, job_id) == [op |-> op, job_id |-> job_id, before |-> jobs]

CallStartJob(job_id) ==
    /\ runs < MaxRuns
    /\ runs' = runs + 1
    /\ jobs' = start_job(jobs, job_id)
    /\ call' = TrackerCall("start_job", job_id)
    /\ UNCHANGED <<now, rate_limiter, news, sentiments, news_cache, watchlist,
                   client, pc, loc, agg>>

CallCompleteJob(job_id, duration, result, error) ==
    /\ runs < MaxRuns
    /\ runs' = runs + 1
    /\ jobs' = complete_job(jobs, job_id, duration, result, error)
    /\ call' = TrackerCall("complete_job", job_id)
    /\ UNCHANGED <<now, rate_limiter, news, sentiments, news_cache, watchlist,
                   client, pc, loc, agg>>

NextTracker ==
    \/ Tick
    \/ \E j \in JobIds : CallStartJob(j)
    \/ \E j \in JobIds, d \in Durations, r \in Payloads, e \in ErrorTexts :
          CallCompleteJob(j, d, r, e)

SpecTracker == Init /\ [][NextTracker]_vars

\* C11: start_job on a known job that is idle, completed or failed sets its
\* status to running and its error to none, and leaves its last_duration and
\* last_result and every other job's entry as they were.
C11_StartJobFrame ==
    (call.op = "start_job"
        /\ call.before[call.job_id].status \in {"idle", "completed", "failed"}) =>
        /\ jobs[call.job_id].status = "running"
        /\ jobs[call.job_id].error = NoneStr
        /\ jobs[call.job_id].last_duration = call.before[call.job_id].last_duration
        /\ jobs[call.job_id].last_result = call.before[call.job_id].last_result
        /\ \A k \in JobIds \ {call.job_id} : jobs[k] = call.before[k]

\* start_job has just restarted a failed job that carries an error text, a
\* duration and a result from its last run.
C11_Witness ==
    /\ call.op = "start_job"
    /\ call.before[call.job_id].status = "failed"
    /\ call.before[call.job_id].error = "database is locked"
    /\ call.before[call.job_id].last_duration = TickSeconds
    /\ call.before[call.job_id].last_result.kind = "dict"
    /\ jobs[call.job_id].status = "running"

\* ---------------------------------------------------------------------------
\* NewsAggregator (src/news_sources/aggregator.py)
\* ---------------------------------------------------------------------------

\* The most items one adapter returns in a call.
MaxItems == 2

\* The elements of a sequence.
Range(s) == {s[n] : n \in 1..Len(s)}

\* The sequences of at most n distinct elements of S.
InjectiveSeqs(S, n) ==
    UNION {{s \in [1..m -> S] : \A a, b \in 1..m : a # b => s[a] # s[b]} : m \in 0..n}

\* The adapters, in the order _get_default_sources builds them.
Adapters == <<"alpha_vantage", "reddit", "twitter">>

\* A published_date string: its text, the layout the text is written in and the
\* time of day it states (all dates of the model are on 2024-01-01).
DateString(text, layout, hh, mm, ss) ==
    [text |-> text, layout |-> layout, hh |-> hh, mm |-> mm, ss |-> ss]

\* A NewsItem (src/models.py); relevance_score in tenths, None when absent.
NewsItem(title, url, source_type, relevance_score, published_date) ==
    [title |-> title, url |-> url, source_type |-> source_type,
     relevance_score |-> relevance_score, published_date |-> published_date]

\* The items each adapter may return for the ticker.
Pool(adapter) ==
    CASE adapter = "alpha_vantage" ->
           {NewsItem("apple beats earnings", "u1", "alpha_vantage", None,
                     DateString("20240101T1230", "minutes", 12, 30, 0)),
            NewsItem("tesla recalls cars", "", "alpha_vantage", 5,
                     DateString("20240101T120500", "seconds", 12, 5, 0)),
            NewsItem("fed holds rates", "", "alpha_vantage", None,
                     DateString("2024-01-01T12:30:00", "iso", 12, 30, 0))}
      [] adapter = "reddit" ->
           {NewsItem("apple beats earning!!!!", "u2", "reddit", 10,
                     DateString("20240101T120500", "seconds", 12, 5, 0)),
            NewsItem("tesla recalls cars", "u1", "reddit", 5,
                     DateString("20240101T123000", "seconds", 12, 30, 0))}
      [] OTHER ->
           {NewsItem("Apple beats earnings  x", "u4", "twitter", 10,
                     DateString("Unknown", "text", 0, 0, 0)),
            NewsItem("fed holds rates", NoneStr, "twitter", None,
                     DateString("20240101T120500", "seconds", 12, 5, 0))}

\* What one adapter's fetch_news does: it raises, or returns a list of items.
Outcomes(adapter) ==
    {[raises |-> TRUE, items |-> <<>>]}
        \cup {[raises |-> FALSE, items |-> s] : s \in InjectiveSeqs(Pool(adapter), MaxItems)}

\* title.lower().strip()
Lowered(title) ==
    IF title = "Apple beats earnings  x" THEN "apple beats earnings  x" ELSE title

\* SequenceMatcher(None, t1, t2).ratio() in thousandths, for the titles of the
\* pools; every other pair of distinct titles is below 0.4.
Ratio(t1, t2) ==
    LET pair == {t1, t2}
    IN  CASE pair = {"apple beats earnings", "apple beats earning!!!!"} -> 884
          [] pair = {"apple beats earnings", "apple beats earnings  x"} -> 930
          [] pair = {"apple beats earning!!!!", "apple beats earnings  x"} -> 826
          [] OTHER -> 368

\* similarity_threshold, in thousandths.
SimilarityThreshold == 850

_is_similar(title1, title2) ==
    LET t1 == Lowered(title1)
        t2 == Lowered(title2)
    IN  IF t1 = t2 THEN TRUE ELSE Ratio(t1, t2) >= SimilarityThreshold

\* The priority of an item, in tenths.
_get_priority(item) ==
    LET priority == CASE item.source_type = "alpha_vantage" -> 30
                      [] item.source_type = "reddit" -> 20
                      [] item.source_type = "twitter" -> 10
                      [] OTHER -> 0
    IN  IF item.relevance_score # None /\ item.relevance_score # 0
        THEN priority + item.relevance_score
        ELSE priority

\* The least element of a non-empty set of numbers.
Least(S) == CHOOSE n \in S : \A m \in S : n <= m

\* The formats parse_date tries, in the order it tries them.
Formats == <<"%Y%m%dT%H%M%S", "%Y%m%dT%H%M", "%Y-%m-%dT%H:%M:%S">>

\* A time of day, in seconds.
TimeOfDay(hh, mm, ss) == hh * 3600 + mm * 60 + ss

\* datetime.min: earlier than every time of 2024-01-01.
DatetimeMin == -1

\* datetime.strptime(date_str, fmt): the parsed time, or ValueError. A directive
\* such as %M takes one or two digits, so "%H%M%S" also matches a text of four
\* digits: "1230" is read as hour 12, minute 3, second 0. "%H%M" takes at most
\* four digits and fails on six with "unconverted data remains".
strptime(date_str, fmt) ==
    LET value(t) == [ok |-> TRUE, value |-> t]
        ValueError == [ok |-> FALSE, value |-> DatetimeMin]
    IN  CASE fmt = "%Y%m%dT%H%M%S" ->
               CASE date_str.layout = "seconds" ->
                      value(TimeOfDay(date_str.hh, date_str.mm, date_str.ss))
                 [] date_str.layout = "minutes" ->
                      value(TimeOfDay(date_str.hh, date_str.mm \div 10, date_str.mm % 10))
                 [] OTHER -> ValueError
          [] fmt = "%Y%m%dT%H%M" ->
               IF date_str.layout = "minutes"
               THEN value(TimeOfDay(date_str.hh, date_str.mm, 0))
               ELSE ValueError
          [] OTHER ->
               IF date_str.layout = "iso"
               THEN value(TimeOfDay(date_str.hh, date_str.mm, date_str.ss))
               ELSE ValueError

\* The sort key: the first format that parses the date decides, and a date no
\* format parses is datetime.min.
parse_date(item) ==
    LET date_str == item.published_date
        parses == {n \in 1..Len(Formats) : strptime(date_str, Formats[n]).ok}
    IN  IF parses = {} THEN DatetimeMin
        ELSE strptime(date_str, Formats[Least(parses)]).value

\* One insertion of sorted(..., reverse=True): the sort is stable, so an item
\* goes behind every item whose key is not smaller than its own.
InsertSorted(sorted, item) ==
    LET smaller == {n \in 1..Len(sorted) : parse_date(sorted[n]) < parse_date(item)}
        pos == IF smaller = {} THEN Len(sorted) + 1 ELSE Least(smaller)
    IN  SubSeq(sorted, 1, pos - 1) \o <<item>> \o SubSeq(sorted, pos, Len(sorted))

RECURSIVE _sort_by_date(_)
_sort_by_date(news_items) ==
    IF news_items = <<>> THEN <<>>
    ELSE InsertSorted(_sort_by_date(SubSeq(news_items, 1, Len(news_items) - 1)),
                      news_items[Len(news_items)])

\* The accepted items and their URLs while _deduplicate runs.
NoneAccepted == [unique_items |-> <<>>, seen_urls |-> {}]

\* if item.url and item.url in seen_urls
UrlSeen(acc, item) == Truthy(item.url) /\ item.url \in acc.seen_urls

\* The position of the first accepted item whose title is similar to the
\* item's, 0 when there is none; the inner loop breaks at that one.
FirstSimilar(acc, item) ==
    LET similar == {n \in 1..Len(acc.unique_items) :
                        _is_similar(item.title, acc.unique_items[n].title)}
    IN  IF similar = {} THEN 0 ELSE Least(similar)

\* list.remove(existing): drops the first element equal to existing.
Remove(list, existing) ==
    LET n == Least({m \in 1..Len(list) : list[m] = existing})
    IN  SubSeq(list, 1, n - 1) \o SubSeq(list, n + 1, Len(list))

\* A variant of the replacement that leaves the removed item's URL in seen_urls.
Replace_KeepsUrl(acc, existing) ==
    [acc EXCEPT !.unique_items = Remove(acc.unique_items, existing)]

\* The item has the higher priority: the accepted one is removed and its URL
\* is discarded.
Replace(acc, existing) ==
    [unique_items |-> Remove(acc.unique_items, existing),
     seen_urls |-> IF Truthy(existing.url) THEN acc.seen_urls \ {existing.url}
                   ELSE acc.seen_urls]

\* if not is_duplicate: the item is appended and its URL is added.
Accepted(acc, item) ==
    [unique_items |-> Append(acc.unique_items, item),
     seen_urls |-> IF Truthy(item.url) THEN acc.seen_urls \cup {item.url}
                   ELSE acc.seen_urls]

\* The item's priority is higher than that of the accepted item at position n.
Outranks(acc, item, n) == _get_priority(item) > _get_priority(acc.unique_items[n])

\* One iteration of the loop of _deduplicate.
DeduplicateItem(acc, item) ==
    LET n == FirstSimilar(acc, item)
    IN  IF UrlSeen(acc, item) THEN acc
        ELSE IF n = 0 THEN Accepted(acc, item)
        ELSE IF Outranks(acc, item, n)
             THEN Accepted(Replace(acc, acc.unique_items[n]), item)
        ELSE acc

RECURSIVE DeduplicateFrom(_, _)
DeduplicateFrom(acc, news_items) ==
    IF news_items = <<>> THEN acc
    ELSE DeduplicateFrom(DeduplicateItem(acc, Head(news_items)), Tail(news_items))

_deduplicate(news_items) == DeduplicateFrom(NoneAccepted, news_items).unique_items

\* A variant of the adapter loop without the except clause: the adapter's
\* exception leaves fetch_all.
FetchNewsUnguarded(all_news, outcome) ==
    [all_news |-> all_news \o outcome.items, raised |-> outcome.raises]

\* One pass of the adapter loop: the items are appended to all_news; an
\* exception is caught and logged, and the loop goes on.
FetchNewsGuarded(all_news, outcome) ==
    [all_news |-> IF outcome.raises THEN all_news ELSE all_news \o outcome.items,
     raised |-> FALSE]

\* The adapter lists fetch_all may work on: the constructor takes any list, and
\* is_available and sources_filter select from it.
SourceLists == InjectiveSeqs(Range(Adapters), Len(Adapters))

\* What the adapters of a list do when fetch_all calls them.
Returns(sources) ==
    {r \in [Range(sources) -> UNION {Outcomes(a) : a \in Range(sources)}] :
        \A a \in Range(sources) : r[a] \in Outcomes(a)}

\* fetch_all has been called.
FetchAllCalled(sources, returned) ==
    [at |-> "fetch", sources |-> sources, returned |-> returned, i |-> 1,
     all_news |-> <<>>, acc |-> NoneAccepted, k |-> 1, result |-> <<>>,
     raised |-> FALSE]

InitAggregate ==
    /\ now = 0
    /\ rate_limiter = [s \in Services |-> NewStatus]
    /\ jobs = NewTracker
    /\ news = <<>>
    /\ sentiments = [k \in {} |-> 0]
    /\ news_cache = {}
    /\ watchlist = <<WatchlistTicker("AAPL", NoneStr, 0, TRUE),
                      WatchlistTicker("TSLA", NoneStr, 0, FALSE)>>
    /\ client = FALSE
    /\ pc = [t \in Threads |-> "idle"]
    /\ loc = [t \in Threads |-> NoLocals]
    /\ runs = 0
    /\ call = NoCall
    /\ \E sources \in SourceLists : \E returned \in Returns(sources) :
           agg = FetchAllCalled(sources, returned)

\* for source in sources_to_use: try source.fetch_news(...) and extend all_news.
FetchNews ==
    /\ agg.at = "fetch"
    /\ agg.i <= Len(agg.sources)
    /\ LET r == FetchNewsGuarded(agg.all_news, agg.returned[agg.sources[agg.i]])
       IN  agg' = IF r.raised
                  THEN [agg EXCEPT !.at = "done", !.raised = TRUE]
                  ELSE [agg EXCEPT !.all_news = r.all_news, !.i = @ + 1]
    /\ UNCHANGED <<now, rate_limiter, jobs, news, sentiments, news_cache, watchlist,
                   client, pc, loc, runs, call>>

\* The adapter loop is over and _deduplicate starts with nothing accepted.
Deduplicate ==
    /\ agg.at = "fetch"
    /\ agg.i > Len(agg.sources)
    /\ agg' = [agg EXCEPT !.at = "scan", !.k = 1, !.acc = NoneAccepted]
    /\ UNCHANGED <<now, rate_limiter, jobs, news, sentiments, news_cache, watchlist,
                   client, pc, loc, runs, call>>

\* The first half of an iteration of _deduplicate: the URL test and the scan of
\* the accepted items, up to the removal of an outranked one.
Scan ==
    /\ agg.at = "scan"
    /\ agg.k <= Len(agg.all_news)
    /\ LET item == agg.all_news[agg.k]
           n == FirstSimilar(agg.acc, item)
       IN  agg' = IF UrlSeen(agg.acc, item) THEN [agg EXCEPT !.k = @ + 1]
                  ELSE IF n = 0 THEN [agg EXCEPT !.at = "accept"]
                  ELSE IF Outranks(agg.acc, item, n)
                       THEN [agg EXCEPT !.at = "accept",
                                        !.acc = Replace(@, @.unique_items[n])]
                  ELSE [agg EXCEPT !.k = @ + 1]
    /\ UNCHANGED <<now, rate_limiter, jobs, news, sentiments, news_cache, watchlist,
                   client, pc, loc, runs, call>>

\* The second half: the item is not a duplicate and is appended.
Accept ==
    /\ agg.at = "accept"
    /\ agg' = [agg EXCEPT !.at = "scan", !.k = @ + 1,
                          !.acc = Accepted(@, agg.all_news[agg.k])]
    /\ UNCHANGED <<now, rate_limiter, jobs, news, sentiments, news_cache, watchlist,
                   client, pc, loc, runs, call>>

\* _deduplicate has returned; fetch_all sorts the accepted items and returns.
SortByDate ==
    /\ agg.at = "scan"
    /\ agg.k > Len(agg.all_news)
    /\ agg' = [agg EXCEPT !.at = "done", !.result = _sort_by_date(agg.acc.unique_items)]
    /\ UNCHANGED <<now, rate_limiter, jobs, news, sentiments, news_cache, watchlist,
                   client, pc, loc, runs, call>>

NextAggregate ==
    \/ FetchNews
    \/ Deduplicate
    \/ Scan
    \/ Accept
    \/ SortByDate

SpecAggregate == InitAggregate /\ [][NextAggregate]_vars

\* The items of the adapters that did not raise, in the order of the list.
RECURSIVE Healthy(_, _)
Healthy(sources, returned) ==
    IF sources = <<>> THEN <<>>
    ELSE returned[Head(sources)].items \o Healthy(Tail(sources), returned)

\* fetch_all as a function of the adapter list and of what the adapters return.
fetch_all(sources, returned) == _sort_by_date(_deduplicate(Healthy(sources, returned)))

\* C12: an adapter's exception never aborts the aggregation: fetch_all does not
\* raise, and it returns the items of the other selected adapters concatenated
\* in the order of the list, deduplicated and sorted.
C12_AdapterFailureIsolated ==
    agg.at = "done" =>
        /\ ~agg.raised
        /\ agg.all_news = Healthy(agg.sources, agg.returned)
        /\ agg.result = _sort_by_date(_deduplicate(agg.all_news))

\* fetch_all has returned items although the first adapter raised.
C12_Witness ==
    /\ agg.at = "done"
    /\ Len(agg.sources) > 1
    /\ agg.returned[agg.sources[1]].raises
    /\ agg.result # <<>>

\* The URLs of the items of a list; a URL that is None or empty is not present.
PresentUrls(items) == {items[n].url : n \in {m \in 1..Len(items) : Truthy(items[m].url)}}

\* C13: throughout _deduplicate the accepted list is no longer than the part of
\* the input already read, its items come from that part, no two of them carry
\* the same present URL, and seen_urls is exactly the set of the accepted
\* items' URLs, also right after a replacement removed an accepted item.
C13_DeduplicateInvariant ==
    agg.at \in {"scan", "accept", "done"} =>
        LET unique_items == agg.acc.unique_items
            read == SubSeq(agg.all_news, 1, agg.k - 1)
        IN  /\ Len(unique_items) <= Len(read)
            /\ Len(read) <= Len(agg.all_news)
            /\ Range(unique_items) \subseteq Range(read)
            /\ \A a, b \in 1..Len(unique_items) :
                   (a # b /\ Truthy(unique_items[a].url)) =>
                       unique_items[a].url # unique_items[b].url
            /\ agg.acc.seen_urls = PresentUrls(unique_items)

\* A replacement has just removed an accepted item that carried a URL, and the
\* item that outranked it is about to be appended.
C13_Witness ==
    /\ agg.at = "accept"
    /\ \E j \in 1..(agg.k - 1) :
           /\ agg.all_news[j] \notin Range(agg.acc.unique_items)
           /\ Truthy(agg.all_news[j].url)
           /\ agg.all_news[j].url \notin agg.acc.seen_urls
           /\ _is_similar(agg.all_news[agg.k].title, agg.all_news[j].title)
           /\ _get_priority(agg.all_news[agg.k]) > _get_priority(agg.all_news[j])
    /\ agg.acc.unique_items # <<>>

\* C14: when the working list holds a market-news item and a microblog item
\* with similar titles and distinct URLs, and no other item of the list carries
\* the market-news item's URL, the deduplicated list retains the market-news
\* item and not the microblog item, whatever their order and relevance scores.
C14_MarketNewsRetained ==
    agg.at = "done" =>
        \A a, t \in 1..Len(agg.all_news) :
            LET market == agg.all_news[a]
                microblog == agg.all_news[t]
            IN  (/\ market.source_type = "alpha_vantage"
                 /\ microblog.source_type = "twitter"
                 /\ _is_similar(market.title, microblog.title)
                 /\ market.url # microblog.url
                 /\ \A o \in 1..Len(agg.all_news) :
                        o # a => agg.all_news[o].url # market.url) =>
                    /\ market \in Range(agg.acc.unique_items)
                    /\ microblog \notin Range(agg.acc.unique_items)

\* The publication time an item's date string states in the known format it is
\* written in; datetime.min when it is written in none of them.
Published(item) ==
    LET date_str == item.published_date
    IN  IF date_str.layout \in {"seconds", "minutes", "iso"}
        THEN TimeOfDay(date_str.hh, date_str.mm, date_str.ss)
        ELSE DatetimeMin

\* C15: the list fetch_all returns is non-increasing in publication date, with
\* the items whose date matches no known format behind all the others, and the
\* sort does not raise.
C15_NewestFirst ==
    agg.at = "done" =>
        /\ ~agg.raised
        /\ \A n \in 1..(Len(agg.result) - 1) :
               Published(agg.result[n]) >= Published(agg.result[n + 1])

\* The orders in which the adapters of a list can be called.
Orders(sources) ==
    {p \in InjectiveSeqs(Range(sources), Len(sources)) : Len(p) = Len(sources)}

\* C16: the list fetch_all returns does not depend on the order of the
\* adapters: with the same items returned by the same adapters, every other
\* order of concatenation gives the same items in the same order.
C16_OrderIndependent ==
    agg.at = "done" =>
        \A p \in Orders(agg.sources) : fetch_all(p, agg.returned) = agg.result

\* A step of thread t in which the classification of its current record fails:
\* analyze_sentiment returns None or raises, and the job counts an error.
ClassificationFails(t) ==
    /\ pc[t] \in {"analyze_available", "analyze_remaining", "generate"}
    /\ loc[t].kind \in AnalyzeWrappers
    /\ loc'[t].error_count = loc[t].error_count + 1

C18_FullRecomputation ==
    [][/\ \A k \in DOMAIN sentiments' :
              (k \notin DOMAIN sentiments \/ sentiments'[k] /= sentiments[k]) =>
                  sentiments'[k] = update_ticker_sentiment(news, k)
       /\ \A t \in Threads :
              (Steps(t, "complete_job") /\ loc[t].kind \in AnalyzeWrappers) =>
                  \A k \in loc[t].processed :
                      /\ k \in DOMAIN sentiments
                      /\ sentiments[k] = update_ticker_sentiment(news, k)]_vars

\* ---------------------------------------------------------------------------
\* The scoring engine (src/scoring.py) against the persisted aggregate
\* ---------------------------------------------------------------------------

\* The most analyzed records the compared computations are given.
MaxAnalyzed == 5

Categories == {"Highly Positive", "Positive", "Neutral", "Negative", "Highly Negative"}

\* SENTIMENT_SCORES of the scoring engine: the integer scale.
ScoringScores(sentiment) ==
    CASE sentiment = "Highly Negative" -> -2
      [] sentiment = "Negative" -> -1
      [] sentiment = "Neutral" -> 0
      [] sentiment = "Positive" -> 1
      [] sentiment = "Highly Positive" -> 2

\* A quotient of two integers, kept exact.
Quotient(num, den) == [num |-> num, den |-> den]

\* q >= tenths/10, for a quotient with a positive denominator.
QuotientAtLeast(q, tenths) == 10 * q.num >= tenths * q.den

RECURSIVE SumOf(_)
SumOf(scores) == IF scores = <<>> THEN 0 ELSE Head(scores) + SumOf(Tail(scores))

\* A variant that takes the average itself as the normalized score.
NotNormalized(avg_score) == avg_score

\* normalized_score = avg_score / 2.0
Normalized(avg_score) == Quotient(avg_score.num, avg_score.den * 2)

\* SentimentScore.signal
signal(normalized_score) ==
    IF QuotientAtLeast(normalized_score, 5) THEN "STRONG BUY"
    ELSE IF QuotientAtLeast(normalized_score, 2) THEN "BUY"
    ELSE IF QuotientAtLeast(normalized_score, -2) THEN "HOLD"
    ELSE IF QuotientAtLeast(normalized_score, -5) THEN "SELL"
    ELSE "STRONG SELL"

\* An AnalysisResult (src/models.py): the category of its analysis (NoneStr:
\* no analysis), its error (NoneStr: none) and the age of analyzed_at in days.
AnalysisResult(sentiment, error, days_old) ==
    [sentiment |-> sentiment, error |-> error, days_old |-> days_old]

\* AnalysisResult.is_successful
is_successful(r) == r.sentiment /= NoneStr /\ r.error = NoneStr

\* [r for r in results if r.is_successful and r.analysis]
ValidResults(results) ==
    SelectSeq(results, LAMBDA r : is_successful(r) /\ r.sentiment /= NoneStr)

\* The scores of a list of valid results.
ScoresOf(results) == [n \in 1..Len(results) |-> ScoringScores(results[n].sentiment)]

\* A variant that puts the aggregate's thresholds on the average.
sentiment_label_aggregate(avg_score) ==
    IF QuotientAtLeast(avg_score, 5) THEN "Highly Positive"
    ELSE IF QuotientAtLeast(avg_score, 2) THEN "Positive"
    ELSE IF QuotientAtLeast(avg_score, -2) THEN "Neutral"
    ELSE IF QuotientAtLeast(avg_score, -5) THEN "Negative"
    ELSE "Highly Negative"

\* The label of calculate_sentiment_score: thresholds on the average.
sentiment_label(avg_score) ==
    IF QuotientAtLeast(avg_score, 15) THEN "Highly Positive"
    ELSE IF QuotientAtLeast(avg_score, 5) THEN "Positive"
    ELSE IF QuotientAtLeast(avg_score, -5) THEN "Neutral"
    ELSE IF QuotientAtLeast(avg_score, -15) THEN "Negative"
    ELSE "Highly Negative"

\* calculate_sentiment_score returns None.
NoScore == [none |-> TRUE]

\* calculate_sentiment_score: None without a valid result, else the
\* SentimentScore of the valid results: their average on the integer scale,
\* its half, the label, the counts and the signal property; the time-weighted
\* score and the trend are unset.
calculate_sentiment_score(results) ==
    LET valid_results == ValidResults(results)
        scores == ScoresOf(valid_results)
        avg_score == Quotient(SumOf(scores), Len(scores))
        normalized_score == Normalized(avg_score)
    IN  IF results = <<>> \/ valid_results = <<>> THEN NoScore
        ELSE [score |-> avg_score, normalized_score |-> normalized_score,
              sentiment_label |-> sentiment_label(avg_score),
              total_analyzed |-> Len(valid_results),
              positive_count |-> Cardinality({n \in 1..Len(scores) : scores[n] > 0}),
              negative_count |-> Cardinality({n \in 1..Len(scores) : scores[n] < 0}),
              neutral_count |-> Cardinality({n \in 1..Len(scores) : scores[n] = 0}),
              signal |-> signal(normalized_score),
              time_weighted_score |-> NoneStr,
              trend |-> NoneStr]

\* calculate_time_weighted_score: the base score with time_weighted_score set.
\* The value is a mean weighted by 0.5 ** (days_old / 7), a real number that is
\* kept as the mark "weighted".
calculate_time_weighted_score(results) ==
    LET base_score == calculate_sentiment_score(results)
    IN  IF base_score = NoScore THEN NoScore
        ELSE [base_score EXCEPT !.time_weighted_score = "weighted"]

\* window_days
WindowDays == 3

\* recent_avg - older_avg > tenths/10, for two averages kept as quotients.
DiffAbove(recent_avg, older_avg, tenths) ==
    10 * (recent_avg.num * older_avg.den - older_avg.num * recent_avg.den)
        > tenths * recent_avg.den * older_avg.den

\* calculate_trend: the time-weighted score, with the trend of the recent
\* results against the older ones when there are at least 4 valid results.
calculate_trend(results) ==
    LET score == calculate_time_weighted_score(results)
        valid_results == ValidResults(results)
        recent == SelectSeq(valid_results, LAMBDA r : r.days_old <= WindowDays)
        older == SelectSeq(valid_results, LAMBDA r : r.days_old > WindowDays)
        recent_avg == Quotient(SumOf(ScoresOf(recent)), Len(recent))
        older_avg == Quotient(SumOf(ScoresOf(older)), Len(older))
    IN  IF score = NoScore THEN score
        ELSE IF score.total_analyzed < 4 THEN score
        ELSE IF Len(recent) < 2 \/ Len(older) < 2
             THEN [score EXCEPT !.trend = "insufficient_data"]
        ELSE IF DiffAbove(recent_avg, older_avg, 3)
             THEN [score EXCEPT !.trend = "improving"]
        ELSE IF DiffAbove(older_avg, recent_avg, 3)
             THEN [score EXCEPT !.trend = "declining"]
        ELSE [score EXCEPT !.trend = "stable"]

\* The URLs of the records of a table of analyzed news.
AnalyzedUrls == <<"a1", "a2", "a3", "a4", "a5", "a6">>

\* The table after the records of one ticker have been analyzed with the
\* given categories.
AnalyzedTable(categories) ==
    [n \in 1..Len(categories) |->
        [NewsRecord("AAPL", AnalyzedUrls[n]) EXCEPT
            !.status = "analyzed", !.sentiment = categories[n],
            !.justification = "justification", !.analyzed_at = 0]]

InitScore ==
    /\ now = 0
    /\ rate_limiter = [s \in Services |-> NewStatus]
    /\ jobs = NewTracker
    /\ \E n \in 1..MaxAnalyzed : \E categories \in [1..n -> Categories] :
           news = AnalyzedTable(categories)
    /\ sentiments = [k \in {} |-> 0]
    /\ news_cache = {}
    /\ watchlist = <<WatchlistTicker("AAPL", NoneStr, 0, TRUE),
                      WatchlistTicker("TSLA", NoneStr, 0, FALSE)>>
    /\ client = FALSE
    /\ pc = [t \in Threads |-> "idle"]
    /\ loc = [t \in Threads |-> NoLocals]
    /\ runs = 0
    /\ call = NoCall
    /\ agg = NoAgg

\* update_ticker_sentiment(ticker) is called on the table.
CallUpdateTickerSentiment(ticker) ==
    /\ ticker \notin DOMAIN sentiments
    /\ sentiments' = [k \in DOMAIN sentiments \cup {ticker} |->
                         IF k = ticker THEN update_ticker_sentiment(news, ticker)
                         ELSE sentiments[k]]
    /\ UNCHANGED <<now, rate_limiter, jobs, news, news_cache, watchlist, client,
                   pc, loc, runs, call, agg>>

\* calculate_sentiment_score is called on the results the records were
\* analyzed with.
CallCalculateSentimentScore ==
    /\ call = NoCall
    /\ call' = [op |-> "calculate_sentiment_score",
                out |-> calculate_sentiment_score(
                           [n \in 1..Len(news) |-> AnalysisResult(news[n].sentiment, NoneStr, 0)])]
    /\ UNCHANGED <<now, rate_limiter, jobs, news, sentiments, news_cache, watchlist,
                   client, pc, loc, runs, agg>>

NextScore ==
    \/ CallUpdateTickerSentiment("AAPL")
    \/ CallCalculateSentimentScore

SpecScore == InitScore /\ [][NextScore]_vars

\* C19: for the same non-empty collection of analyzed categories, the signal
\* of the scoring engine (integer scale, average divided by 2) equals the
\* signal of the persisted aggregate (half-integer scale, average as it is).
C19_SameSignal ==
    (call.op = "calculate_sentiment_score" /\ "AAPL" \in DOMAIN sentiments) =>
        /\ call.out.total_analyzed = sentiments["AAPL"].total_analyzed
        /\ call.out.signal = sentiments["AAPL"].signal

\* Both computations have run on five records whose average sits exactly on
\* the BUY threshold (0.2 on the -1..1 scale).
C19_Witness ==
    /\ call.op = "calculate_sentiment_score"
    /\ "AAPL" \in DOMAIN sentiments
    /\ Len(news) = 5
    /\ call.out.normalized_score = Quotient(2, 10)
    /\ sentiments["AAPL"].signal = "BUY"

\* ---------------------------------------------------------------------------
\* The watchlist service (src/services/watchlist_service.py)
\* ---------------------------------------------------------------------------

\* The most add_ticker and remove_ticker calls of a behaviour.
MaxCalls == 3

\* The symbols and company names the calls are made with.
Symbols == {"aapl", "TSLA", "msft"}
Names == {NoneStr, "Apple Inc."}

\* ticker_symbol.upper()
Upper(ticker_symbol) ==
    CASE ticker_symbol = "aapl" -> "AAPL"
      [] ticker_symbol = "msft" -> "MSFT"
      [] OTHER -> ticker_symbol

\* The empty TickerSentiment row add_ticker creates: the counts are zero, the
\* label and the signal have no default.
EmptySentiment ==
    [positive_count |-> 0, negative_count |-> 0, neutral_count |-> 0,
     total_analyzed |-> 0, total_pending |-> 0, score2 |-> 0,
     sentiment_label |-> NoneStr, signal |-> NoneStr]

\* filter(WatchlistTicker.ticker == ...).first(): the position of the first
\* row of the ticker, 0 when there is none.
RowOf(rows, ticker) ==
    LET found == {n \in 1..Len(rows) : rows[n].ticker = ticker}
    IN  IF found = {} THEN 0 ELSE Least(found)

\* The outcome of a watchlist call: the two tables and the exception raised.
Outcome2(rows, rowsents, raised) ==
    [watchlist |-> rows, sentiments |-> rowsents, raised |-> raised]

\* The insertion branch of add_ticker: the row is committed first, then the
\* empty sentiment row; ticker is unique in both tables, and a commit that
\* breaks the constraint raises and stores nothing.
InsertTicker(rows, rowsents, ticker, name, at) ==
    IF RowOf(rows, ticker) # 0
    THEN Outcome2(rows, rowsents, "IntegrityError")
    ELSE LET added == Append(rows, WatchlistTicker(ticker, name, at, TRUE))
         IN  IF ticker \in DOMAIN rowsents
             THEN Outcome2(added, rowsents, "IntegrityError")
             ELSE Outcome2(added,
                           [k \in DOMAIN rowsents \cup {ticker} |->
                               IF k = ticker THEN EmptySentiment ELSE rowsents[k]],
                           NoExc)

\* A variant of add_ticker without the lookup of an existing row.
add_ticker_inserts(rows, rowsents, ticker_symbol, name, at) ==
    InsertTicker(rows, rowsents, Upper(ticker_symbol), name, at)

add_ticker(rows, rowsents, ticker_symbol, name, at) ==
    LET ticker == Upper(ticker_symbol)
        existing == RowOf(rows, ticker)
    IN  IF existing # 0
        THEN IF ~rows[existing].is_active
             THEN Outcome2([rows EXCEPT ![existing].is_active = TRUE,
                                        ![existing].name = IF Truthy(name) THEN name ELSE @],
                           rowsents, NoExc)
             ELSE Outcome2(rows, rowsents, NoExc)
        ELSE InsertTicker(rows, rowsents, ticker, name, at)

\* remove_ticker: the row is deactivated; False when there is no row.
remove_ticker(rows, ticker_symbol) ==
    LET ticker == RowOf(rows, Upper(ticker_symbol))
    IN  IF ticker = 0 THEN [watchlist |-> rows, out |-> FALSE]
        ELSE [watchlist |-> [rows EXCEPT ![ticker].is_active = FALSE], out |-> TRUE]

\* The watchlist as the jobs' initial state has it; the sentiment table may
\* hold a row that update_ticker_sentiment made for a ticker fetched on its own.
InitWatchlist ==
    /\ now = 0
    /\ rate_limiter = [s \in Services |-> NewStatus]
    /\ jobs = NewTracker
    /\ news = <<>>
    /\ sentiments \in {[k \in {} |-> EmptySentiment], [k \in {"MSFT"} |-> EmptySentiment]}
    /\ news_cache = {}
    /\ watchlist = <<WatchlistTicker("AAPL", NoneStr, 0, TRUE),
                      WatchlistTicker("TSLA", NoneStr, 0, FALSE)>>
    /\ client = FALSE
    /\ pc = [t \in Threads |-> "idle"]
    /\ loc = [t \in Threads |-> NoLocals]
    /\ runs = 0
    /\ call = NoCall
    /\ agg = NoAgg

\* The call that has just been made, with the watchlist it found.
WatchlistCall(op, ticker_symbol, name, raised) ==
    [op |-> op, ticker_symbol |-> ticker_symbol, name |-> name,
     before |-> watchlist, raised |-> raised]

\* add_ticker(ticker_symbol, name) is called; a failing session raises before
\* anything is stored.
CallAddTicker(ticker_symbol, name) ==
    /\ runs < MaxCalls
    /\ runs' = runs + 1
    /\ \/ LET r == add_ticker(watchlist, sentiments, ticker_symbol, name, now)
          IN  /\ watchlist' = r.watchlist
              /\ sentiments' = r.sentiments
              /\ call' = WatchlistCall("add_ticker", ticker_symbol, name, r.raised)
       \/ \E e \in DbErrors :
              /\ call' = WatchlistCall("add_ticker", ticker_symbol, name, e)
              /\ UNCHANGED <<watchlist, sentiments>>
    /\ UNCHANGED <<now, rate_limiter, jobs, news, news_cache, client, pc, loc, agg>>

\* remove_ticker(ticker_symbol) is called.
CallRemoveTicker(ticker_symbol) ==
    /\ runs < MaxCalls
    /\ runs' = runs + 1
    /\ \/ /\ watchlist' = remove_ticker(watchlist, ticker_symbol).watchlist
          /\ call' = WatchlistCall("remove_ticker", ticker_symbol, NoneStr, NoExc)
       \/ \E e \in DbErrors :
              /\ call' = WatchlistCall("remove_ticker", ticker_symbol, NoneStr, e)
              /\ UNCHANGED watchlist
    /\ UNCHANGED <<now, rate_limiter, jobs, news, sentiments, news_cache, client,
                   pc, loc, agg>>

NextWatchlist ==
    \/ Tick
    \/ \E ticker_symbol \in Symbols, name \in Names : CallAddTicker(ticker_symbol, name)
    \/ \E ticker_symbol \in Symbols : CallRemoveTicker(ticker_symbol)

SpecWatchlist == InitWatchlist /\ [][NextWatchlist]_vars

\* The rows of the watchlist that carry the ticker.
RowsOf(rows, ticker) == {n \in 1..Len(rows) : rows[n].ticker = ticker}

\* add_ticker has stored the ticker: its session did not fail before the row
\* was committed.
Added ==
    /\ call.op = "add_ticker"
    /\ call.raised \in {NoExc, "IntegrityError"}

\* After add_ticker(s): there is exactly one row for the upper-cased symbol and
\* it is active; a row the ticker had before is that row, at its place and
\* with its added_at; and a second add_ticker(s), with any name and at any
\* time, leaves the watchlist as it is.
AddedOnce ==
    Added =>
        LET ticker == Upper(call.ticker_symbol)
            before == RowsOf(call.before, ticker)
        IN  /\ Cardinality(RowsOf(watchlist, ticker)) = 1
            /\ watchlist[RowOf(watchlist, ticker)].is_active
            /\ before # {} =>
                   /\ Len(watchlist) = Len(call.before)
                   /\ RowsOf(watchlist, ticker) = before
                   /\ watchlist[RowOf(watchlist, ticker)].added_at =
                          call.before[RowOf(call.before, ticker)].added_at
            /\ \A name \in Names, at \in {now, now + TickSeconds} :
                   add_ticker(watchlist, sentiments, call.ticker_symbol, name, at).watchlist
                       = watchlist

\* C20: add_ticker is idempotent and re-activates a removed ticker's row
\* instead of adding one, and no add_ticker or remove_ticker call deletes a
\* row: every row stays at its place with its ticker and added_at.
C20_AddIdempotentNeverDeletes ==
    [][/\ AddedOnce'
       /\ Len(watchlist') >= Len(watchlist)
       /\ \A n \in 1..Len(watchlist) :
              /\ watchlist'[n].ticker = watchlist[n].ticker
              /\ watchlist'[n].added_at = watchlist[n].added_at]_vars

\* add_ticker has just re-activated the row of a ticker that remove_ticker had
\* deactivated in this behaviour.
C20_Witness ==
    /\ call.op = "add_ticker"
    /\ call.raised = NoExc
    /\ Upper(call.ticker_symbol) = "AAPL"
    /\ ~call.before[1].is_active
    /\ watchlist[1].is_active
    /\ Len(watchlist) = Len(call.before)

\* ---------------------------------------------------------------------------
\* Direct calls of the scoring engine (src/scoring.py)
\* ---------------------------------------------------------------------------

\* The most results calculate_trend is given.
MaxResults == 4

\* The results a list may hold: a result of each category, analyzed one or five
\* days ago, a result without analysis and a result with analysis and error.
ResultPool ==
    {AnalysisResult(c, NoneStr, d) : c \in Categories, d \in {1, 5}}
        \cup {AnalysisResult(NoneStr, "Analysis failed", 1),
              AnalysisResult("Positive", "Analysis failed", 1)}

\* The results calculate_sentiment_score is given: their age plays no part.
ScorePool == {r \in ResultPool : r.days_old = 1}

\* The lists of at most n elements of S.
ListsOf(S, n) == UNION {[1..m -> S] : m \in 0..n}

\* A call of the scoring engine with its argument and what it returned; a
\* behaviour makes one call.
EngineCall(op, results, out) == [op |-> op, results |-> results, out |-> out]

CallSentimentScore ==
    /\ call = NoCall
    /\ \E results \in ListsOf(ScorePool, MaxAnalyzed) :
           call' = EngineCall("calculate_sentiment_score", results,
                              calculate_sentiment_score(results))
    /\ UNCHANGED <<now, rate_limiter, jobs, news, sentiments, news_cache, watchlist,
                   client, pc, loc, runs, agg>>

CallTrend ==
    /\ call = NoCall
    /\ \E results \in ListsOf(ResultPool, MaxResults) :
           call' = EngineCall("calculate_trend", results, calculate_trend(results))
    /\ UNCHANGED <<now, rate_limiter, jobs, news, sentiments, news_cache, watchlist,
                   client, pc, loc, runs, agg>>

NextEngine ==
    \/ CallSentimentScore
    \/ CallTrend

SpecEngine == Init /\ [][NextEngine]_vars

\* C21: calculate_trend on a list with fewer than 4 successful results returns
\* a score whose trend is 'insufficient_data', whatever the categories and the
\* analysis times.
C21_TrendBelowFloor ==
    (call.op = "calculate_trend"
        /\ Len(ValidResults(call.results)) >= 1
        /\ Len(ValidResults(call.results)) < 4) =>
        /\ call.out /= NoScore
        /\ call.out.trend = "insufficient_data"

\* The number of successful results of a list that carry the category.
CountOf(results, category) ==
    Cardinality({n \in 1..Len(results) :
                    /\ results[n].sentiment = category
                    /\ results[n].error = NoneStr})

\* C22: for a list with at least one successful result, calculate_sentiment_score
\* returns, over the successful results only (n of them, with integer scores
\* summing to S): the average S/n, the normalized score S/(2n), the label by
\* the thresholds 1.5, 0.5, -0.5, -1.5 on the average and the signal by the
\* thresholds 0.5, 0.2, -0.2, -0.5 on the normalized score.
C22_ScoreOfSuccessful ==
    LET results == call.results
        n == CountOf(results, "Highly Positive") + CountOf(results, "Positive")
               + CountOf(results, "Neutral") + CountOf(results, "Negative")
               + CountOf(results, "Highly Negative")
        S == 2 * CountOf(results, "Highly Positive") + CountOf(results, "Positive")
               - CountOf(results, "Negative") - 2 * CountOf(results, "Highly Negative")
    IN  (call.op = "calculate_sentiment_score" /\ n >= 1) =>
            /\ call.out /= NoScore
            /\ call.out.total_analyzed = n
            /\ call.out.score.num * n = S * call.out.score.den
            /\ call.out.normalized_score.num * 2 * n = S * call.out.normalized_score.den
            /\ call.out.sentiment_label =
                   (IF 2 * S >= 3 * n THEN "Highly Positive"
                    ELSE IF 2 * S >= n THEN "Positive"
                    ELSE IF 2 * S >= -n THEN "Neutral"
                    ELSE IF 2 * S >= -3 * n THEN "Negative"
                    ELSE "Highly Negative")
            /\ call.out.signal =
                   (IF S >= n THEN "STRONG BUY"
                    ELSE IF 5 * S >= 2 * n THEN "BUY"
                    ELSE IF 5 * S >= -2 * n THEN "HOLD"
                    ELSE IF S >= -n THEN "SELL"
                    ELSE "STRONG SELL")

\* calculate_sentiment_score has been called with Positive, Positive, Neutral,
\* Negative, Highly Positive and returned 0.6, 0.3, 'Positive', 'BUY'.
C22_Witness ==
    /\ call.op = "calculate_sentiment_score"
    /\ Len(call.results) = 5
    /\ [n \in 1..5 |-> call.results[n].sentiment]
           = <<"Positive", "Positive", "Neutral", "Negative", "Highly Positive">>
    /\ \A n \in 1..5 : call.results[n].error = NoneStr
    /\ call.out.score = Quotient(3, 5)
    /\ call.out.normalized_score = Quotient(3, 10)
    /\ call.out.sentiment_label = "Positive"
    /\ call.out.signal = "BUY"

\* C29: for the same non-empty collection of analyzed categories, the label of
\* the scoring engine (thresholds on the integer average) equals the label the
\* persisted aggregate stores (thresholds on the half-integer average).
C29_SameLabel ==
    (call.op = "calculate_sentiment_score" /\ "AAPL" \in DOMAIN sentiments) =>
        call.out.sentiment_label = sentiments["AAPL"].sentiment_label

\* C23: a get_remaining_cooldown call that returns gives none exactly when the
\* service is not in cooldown (no cooldown set, or its time has passed) and
\* otherwise a number of seconds that is not negative, and it leaves the
\* tracker as it was.
C23_RemainingCooldown ==
    [][\A t \in Threads, s \in Services :
          LET r == get_remaining_cooldown(t, rate_limiter[s])
          IN  (/\ pc[t] = "idle"
               /\ r.out /= "blocked"
               /\ now' = now
               /\ call'.op = "get_remaining_cooldown"
               /\ call'.service = s
               /\ call'.before = rate_limiter[s]) =>
                  /\ (call'.out = "none") <=> ~InCooldown(rate_limiter[s])
                  /\ r.value = None \/ r.value >= 0
                  /\ rate_limiter' = rate_limiter]_vars

\* C24: retries are bounded, so every job run ends: no call of fetch_news_data
\* or analyze_sentiment is at an attempt beyond the third, and no run is at a
\* point it can never leave (waiting for a lock that is never released).
C24_BoundedRetries ==
    \A t \in Threads :
        /\ loc[t].attempt <= MaxAttempts
        /\ pc[t] /= "blocked"

\* C25: a get_status() call on a tracker whose lock is free returns, in every
\* cooldown state, and its 'available' is what is_available() reports there.
C25_GetStatusReturns ==
    [][\A t \in Threads, s \in Services :
          (/\ pc[t] = "idle" /\ now' = now
           /\ CanAcquire(rate_limiter[s])
           /\ call'.op = "get_status" /\ call'.service = s
           /\ call'.before = rate_limiter[s]
           /\ pc'[t] /= pc[t] \/ call' /= call) =>
              /\ call'.out \in {"true", "false"}
              /\ is_available(t, rate_limiter[s]).out \in {call'.out, "blocked"}]_vars

\* C26: a job that a wrapper has set to running leaves running again: as long
\* as fetch_all_news or analyze_pending is reported running, some run of it is
\* still on its way to complete_job, none of them waiting on a lock that is
\* never released.
C26_RunningJobCompletes ==
    \A j \in {"fetch_all_news", "analyze_pending"} :
        jobs[j].status = "running" =>
            \E t \in Threads : InBody(t) /\ Job(t) = j /\ pc[t] /= "blocked"

\* C27: while at least one per-ticker fetch (job id fetch_news_ticker) is
\* executing its body, the tracker reports the job as running.
C27_TickerJobReportedRunning ==
    (\E t \in Threads : InBody(t) /\ Job(t) = "fetch_news_ticker") =>
        is_job_running(jobs, "fetch_news_ticker")

\* C28: when _deduplicate has returned, no two of the accepted items have
\* similar titles.
C28_NoSimilarTitles ==
    agg.at = "done" =>
        LET unique_items == agg.acc.unique_items
        IN  \A a, b \in 1..Len(unique_items) :
                a # b => ~_is_similar(unique_items[a].title, unique_items[b].title)

====
